---------------------------- MODULE Spec2Model ----------------------------
(***************************************************************************)
(* A model of the reusable test utilities of harmony-test:                 *)
(*   - get_calldata_gas            (src/localnet/rpc_tests/utils.py)       *)
(*   - assert_valid_json_structure (src/localnet/rpc_tests/utils.py and,   *)
(*     character for character the same logic, src/regression/utils.py)    *)
(*   - the strict assert_valid_json_structure of src/localnet/tests/utils.py *)
(*                                                                         *)
(* Python strings whose characters matter are sequences of one-character   *)
(* strings; decoded JSON values are tagged records (see the JSON section). *)
(***************************************************************************)
EXTENDS Integers, Sequences, FiniteSets, TLC

VARIABLES
    bytecode,       \* the argument s of the two get_calldata_gas calls
    plainCall,      \* outcome of get_calldata_gas(s)
    prefixedCall,   \* outcome of get_calldata_gas("0x" + s)
    reference,      \* the reference JSON value handed to a validator
    candidate,      \* the candidate JSON value handed to a validator
    permissive,     \* outcome of the permissive assert_valid_json_structure
    strict,         \* outcome of the strict assert_valid_json_structure
    response,       \* the response text handed to the envelope functions
    expect_error,   \* the expect_error argument of check_and_unpack_rpc_response
    unpacked,       \* outcome of check_and_unpack_rpc_response(response, expect_error)
    accepted,       \* outcome of is_valid_json_rpc(response)
    locks,          \* _mutually_exclusive_locks: per scope no lock, unlocked, or the holder
    decorated,      \* the test functions mutually_exclusive_test has wrapped
    pc,             \* per thread, where it is in wrap
    fn,             \* per thread, the test function it is calling
    ended,          \* per thread, how the body of its last call ended
    epoch,          \* per endpoint, the current epoch of its shard
    prestaking_epoch,       \* the chain's pre-staking epoch
    _is_cross_shard_era,    \* the cached flag of is_cross_shard_era
    _is_staking_era,        \* the cached flag of is_staking_era
    era_call,       \* per caller, its call of is_cross_shard_era / is_staking_era
    chain,          \* what the node knows of the sender and of the transaction
    send_call,      \* the call of a send helper of txs.py
    ledger,         \* what the node holds of one test account on one shard
    suite_calls     \* per parallel test, its call of send_transaction

gasVars == <<bytecode, plainCall, prefixedCall>>
jsonVars == <<reference, candidate, permissive, strict>>
rpcVars == <<response, expect_error, unpacked, accepted>>
lockVars == <<locks, decorated, pc, fn, ended>>
eraVars == <<epoch, prestaking_epoch, _is_cross_shard_era, _is_staking_era, era_call>>
sendVars == <<chain, send_call>>
suiteVars == <<ledger, suite_calls>>

vars == <<gasVars, jsonVars, rpcVars, lockVars, eraVars, sendVars, suiteVars>>

otherThanGas == <<jsonVars, rpcVars, lockVars, eraVars, sendVars, suiteVars>>
otherThanJson == <<gasVars, rpcVars, lockVars, eraVars, sendVars, suiteVars>>
otherThanRpc == <<gasVars, jsonVars, lockVars, eraVars, sendVars, suiteVars>>
otherThanLock == <<gasVars, jsonVars, rpcVars, eraVars, sendVars, suiteVars>>
otherThanEra == <<gasVars, jsonVars, rpcVars, lockVars, sendVars, suiteVars>>
otherThanSend == <<gasVars, jsonVars, rpcVars, lockVars, eraVars, suiteVars>>
otherThanSuite == <<gasVars, jsonVars, rpcVars, lockVars, eraVars, sendVars>>

(***************************************************************************)
(* Bounds of the model.                                                    *)
(***************************************************************************)
\* longest input string of get_calldata_gas that Init enumerates
MaxHexLen == 5

\* characters the enumerated inputs are made of: hex digits (zero and
\* non-zero), the prefix letter (which is not a hex digit) and a blank
Alphabet == {"0", "1", "f", "x", " "}

(***************************************************************************)
(* Strings.                                                                *)
(***************************************************************************)
\* str.startswith
StartsWith(s, prefix) ==
    /\ Len(s) >= Len(prefix)
    /\ SubSeq(s, 1, Len(prefix)) = prefix

HexPrefix == <<"0", "x">>

\* the digit values int(c, 16) that bytes.fromhex accepts
HexValue ==
    ("0" :> 0) @@ ("1" :> 1) @@ ("2" :> 2) @@ ("3" :> 3) @@ ("4" :> 4) @@
    ("5" :> 5) @@ ("6" :> 6) @@ ("7" :> 7) @@ ("8" :> 8) @@ ("9" :> 9) @@
    ("a" :> 10) @@ ("b" :> 11) @@ ("c" :> 12) @@ ("d" :> 13) @@ ("e" :> 14) @@
    ("f" :> 15) @@ ("A" :> 10) @@ ("B" :> 11) @@ ("C" :> 12) @@ ("D" :> 13) @@
    ("E" :> 14) @@ ("F" :> 15)

IsHexDigit(c) == c \in DOMAIN HexValue

\* the ASCII whitespace bytes.fromhex skips between two bytes
IsSpace(c) == c \in {" ", "\t", "\n", "\r", "\f"}

(***************************************************************************)
(* get_calldata_gas                                                        *)
(***************************************************************************)
\* an outcome of a call: not made yet, a returned value, or a raised error
NotCalled == [called |-> FALSE, raised |-> "", value |-> 0]
Returned(v) == [called |-> TRUE, raised |-> "", value |-> v]
Raised(e) == [called |-> TRUE, raised |-> e, value |-> 0]

\* ValueError("Invalid bytecode length: ...") of get_calldata_gas
InvalidLength == "ValueError: Invalid bytecode length"
\* ValueError("non-hexadecimal number found in fromhex() arg ...")
NonHexadecimal == "ValueError: non-hexadecimal number found in fromhex() arg"

\* faulty variant: the prefix is never taken off
StripPrefixNever(s) == s

\* if bytecode.startswith("0x"): bytecode = bytecode[2:]
StripPrefix(s) ==
    IF StartsWith(s, HexPrefix) THEN SubSeq(s, 3, Len(s)) ELSE s

\* faulty variant: the length check is left out
LengthIsEvenAlways(s) == TRUE

\* the negation of: len(bytecode) % 2 != 0
LengthIsEven(s) == Len(s) % 2 = 0

\* bytes.fromhex from position i on, acc the bytes decoded so far: blanks are
\* skipped before a byte, and a byte is two hex digits next to each other;
\* the result is <<TRUE, bytes>> or <<FALSE, <<>>>> for the ValueError
RECURSIVE FromHexAt(_, _, _)
FromHexAt(s, i, acc) ==
    IF i > Len(s) THEN <<TRUE, acc>>
    ELSE IF IsSpace(s[i]) THEN FromHexAt(s, i + 1, acc)
    ELSE IF ~IsHexDigit(s[i]) THEN <<FALSE, <<>>>>
    ELSE IF i + 1 > Len(s) THEN <<FALSE, <<>>>>
    ELSE IF ~IsHexDigit(s[i + 1]) THEN <<FALSE, <<>>>>
    ELSE FromHexAt(s, i + 2, Append(acc, 16 * HexValue[s[i]] + HexValue[s[i + 1]]))

\* bytes.fromhex(bytecode)
FromHex(s) == FromHexAt(s, 1, <<>>)

GAS_COST_ZERO_BYTE == 4
GAS_COST_NONZERO_BYTE == 16

\* faulty variant: a zero byte is charged like any other
ByteGasFlat(byte) == GAS_COST_NONZERO_BYTE

\* GAS_COST_NONZERO_BYTE if byte != 0 else GAS_COST_ZERO_BYTE
ByteGas(byte) ==
    IF byte # 0 THEN GAS_COST_NONZERO_BYTE ELSE GAS_COST_ZERO_BYTE

\* sum(... for byte in bytecode_bytes)
RECURSIVE SumGas(_)
SumGas(bytes) ==
    IF bytes = <<>> THEN 0 ELSE ByteGas(Head(bytes)) + SumGas(Tail(bytes))

get_calldata_gas(s) ==
    LET stripped == StripPrefix(s)
        decoded == FromHex(stripped)
    IN  IF ~LengthIsEven(stripped) THEN Raised(InvalidLength)
        ELSE IF ~decoded[1] THEN Raised(NonHexadecimal)
        ELSE Returned(SumGas(decoded[2]))

\* main_smart_contract_call = "0x6001600101" of test_debug_traceCall_block_override
main_smart_contract_call ==
    <<"0", "x", "6", "0", "0", "1", "6", "0", "0", "1", "0", "1">>

DEFAULT_GAS == 21000

\* every string over Alphabet of length n
RECURSIVE StringsOfLen(_)
StringsOfLen(n) ==
    IF n = 0 THEN {<<>>}
    ELSE {Append(s, c) : s \in StringsOfLen(n - 1), c \in Alphabet}

\* the arguments the calls are made with
Bytecodes ==
    UNION {StringsOfLen(n) : n \in 0..MaxHexLen}
        \cup {main_smart_contract_call, SubSeq(main_smart_contract_call, 3, 12)}

\* the validators are not used by the gas calls
JsonIdle ==
    /\ reference = <<>>
    /\ candidate = <<>>
    /\ permissive = <<>>
    /\ strict = <<>>

\* the envelope functions are not used
RpcIdle ==
    /\ response = <<>>
    /\ expect_error = FALSE
    /\ unpacked = <<>>
    /\ accepted = <<>>

\* no test function is decorated and no thread runs
LockIdle ==
    /\ locks = <<>>
    /\ decorated = {}
    /\ pc = <<>>
    /\ fn = <<>>
    /\ ended = <<>>

\* no era function is called
EraIdle ==
    /\ epoch = <<>>
    /\ prestaking_epoch = 0
    /\ _is_cross_shard_era = FALSE
    /\ _is_staking_era = FALSE
    /\ era_call = <<>>

\* no send helper is called
SendIdle ==
    /\ chain = <<>>
    /\ send_call = <<>>

\* no parallel test sends anything
SuiteIdle ==
    /\ ledger = <<>>
    /\ suite_calls = <<>>

IdleButGas == JsonIdle /\ RpcIdle /\ LockIdle /\ EraIdle /\ SendIdle /\ SuiteIdle

GasInit ==
    /\ bytecode \in Bytecodes
    /\ plainCall = NotCalled
    /\ prefixedCall = NotCalled
    /\ IdleButGas

\* a test calls get_calldata_gas(s)
CallPlain ==
    /\ ~plainCall.called
    /\ plainCall' = get_calldata_gas(bytecode)
    /\ UNCHANGED <<bytecode, prefixedCall, otherThanGas>>

\* a test calls get_calldata_gas("0x" + s)
CallPrefixed ==
    /\ ~prefixedCall.called
    /\ prefixedCall' = get_calldata_gas(HexPrefix \o bytecode)
    /\ UNCHANGED <<bytecode, plainCall, otherThanGas>>

GasNext == CallPlain \/ CallPrefixed

SpecGas == GasInit /\ [][GasNext]_vars

(***************************************************************************)
(* Decoded JSON values.  A value is a record                               *)
(*     [t |-> its Python type, n |-> a number's or boolean's payload,      *)
(*      s |-> a string's characters, kids |-> a container's children],     *)
(* a child being [k |-> its key ("" in a list), v |-> the value].  A dict  *)
(* keeps its children in insertion order, as Python does.  A float's n is  *)
(* its value in tenths (15 is 1.5), a boolean's n is 0 or 1.               *)
(***************************************************************************)
JNull == [t |-> "NoneType", n |-> 0, s |-> <<>>, kids |-> <<>>]
JBool(b) == [t |-> "bool", n |-> b, s |-> <<>>, kids |-> <<>>]
JInt(i) == [t |-> "int", n |-> i, s |-> <<>>, kids |-> <<>>]
JFloat(tenths) == [t |-> "float", n |-> tenths, s |-> <<>>, kids |-> <<>>]
JStr(chars) == [t |-> "str", n |-> 0, s |-> chars, kids |-> <<>>]
JList(items) ==
    [t |-> "list", n |-> 0, s |-> <<>>,
     kids |-> [i \in 1..Len(items) |-> [k |-> "", v |-> items[i]]]]
JDict(pairs) == [t |-> "dict", n |-> 0, s |-> <<>>, kids |-> pairs]

\* type(x)
TypeOf(x) == x.t

\* len(x) of a list or dict
LenOf(x) == Len(x.kids)

\* min(a, b)
Min(a, b) == IF a <= b THEN a ELSE b

\* key in d.keys()
HasKey(d, key) == \E j \in 1..Len(d.kids) : d.kids[j].k = key

\* d[key], for a key that d has
GetItem(d, key) == d.kids[CHOOSE j \in 1..Len(d.kids) : d.kids[j].k = key].v

\* lst[i], i counted from 0
GetIndex(lst, i) == lst.kids[i + 1].v

\* a position inside a value: the steps from the root, each an index into a
\* list (counted from 0) or a key of a dict
AtIndex(i) == [key |-> "", idx |-> i]
AtKey(key) == [key |-> key, idx |-> 0 - 1]

One1 == <<"o", "n", "e", "1">>

\* the strings of the model whose bech32 checksum verifies (bech32_decode of
\* pyhmy, a library outside this repository, returns a prefix for them)
Bech32Decodable ==
    {One1 \o <<"q", "p">>, One1 \o <<"z", "r">>}

\* account.is_valid_address of pyhmy: the one1 prefix and a bech32 string
is_valid_address(address) ==
    /\ StartsWith(address, One1)
    /\ address \in Bech32Decodable

\* the outcome of a validation: not run, passed, or the AssertionError it
\* raised with the position it was raised at; visited holds every position
\* whose (reference, candidate) pair the validator looked at
NotRun == [ran |-> FALSE, ok |-> FALSE, err |-> "", at |-> <<>>, visited |-> {}]
Passed(seen) == [ran |-> TRUE, ok |-> TRUE, err |-> "", at |-> <<>>, visited |-> seen]
Failed(e, path, seen) == [ran |-> TRUE, ok |-> FALSE, err |-> e, at |-> path, visited |-> seen]
AlsoVisited(r, seen) == [r EXCEPT !.visited = @ \cup seen]

ExpectedType == "AssertionError: Expected type"
ExpectedKey == "AssertionError: Expected key"
ExpectedHex == "AssertionError: Expected a hex string"
ExpectedAddress == "AssertionError: Expected a valid ONE address"

(***************************************************************************)
(* The permissive assert_valid_json_structure (rpc_tests/utils.py:89-112,  *)
(* the same statements as regression/utils.py:46-78).                      *)
(***************************************************************************)
\* faulty variant: only a null reference is a wildcard
IsWildcardReferenceOnly(ref, cand) == TypeOf(ref) = "NoneType"

\* if reference is None or candidate is None: return
IsWildcard(ref, cand) == TypeOf(ref) = "NoneType" \/ TypeOf(cand) = "NoneType"

\* faulty variant: isinstance-like, a boolean counts as an integer
SameTypeBoolAsInt(ref, cand) ==
    \/ TypeOf(ref) = TypeOf(cand)
    \/ {TypeOf(ref), TypeOf(cand)} = {"bool", "int"}

\* faulty variant: containers must also have the same length
SameTypeAndLength(ref, cand) ==
    TypeOf(ref) = TypeOf(cand) /\ LenOf(ref) = LenOf(cand)

\* type(reference) == type(candidate)
SameType(ref, cand) == TypeOf(ref) = TypeOf(cand)

\* type(reference) == list and reference and candidate
ListsToCompare(ref, cand) ==
    TypeOf(ref) = "list" /\ LenOf(ref) > 0 /\ LenOf(cand) > 0

\* faulty variant: the loop stops one element short
OverlapLenMinusOne(ref, cand) == Min(LenOf(ref), LenOf(cand)) - 1

\* min(len(reference), len(candidate))
OverlapLen(ref, cand) == Min(LenOf(ref), LenOf(cand))

\* faulty variant: an empty dict is skipped the way an empty list is
DictsToCompareNonEmpty(ref, cand) ==
    TypeOf(ref) = "dict" /\ LenOf(ref) > 0 /\ LenOf(cand) > 0

\* type(reference) == dict
DictsToCompare(ref, cand) == TypeOf(ref) = "dict"

\* reference.keys(), in iteration order
KeysOf(d) == [j \in 1..Len(d.kids) |-> d.kids[j].k]

\* faulty variant: hex strings are compared by value
HexTagOkByValue(ref, cand) ==
    StartsWith(ref.s, HexPrefix) => cand.s = ref.s

\* if reference.startswith("0x"): assert candidate.startswith("0x")
HexTagOk(ref, cand) ==
    StartsWith(ref.s, HexPrefix) => StartsWith(cand.s, HexPrefix)

\* if reference.startswith("one1") and account.is_valid_address(reference):
\*     assert account.is_valid_address(candidate)
AddressTagOk(ref, cand) ==
    (StartsWith(ref.s, One1) /\ is_valid_address(ref.s)) => is_valid_address(cand.s)

RECURSIVE assert_valid_json_structure(_, _, _)
RECURSIVE PermissiveListLoop(_, _, _, _)
RECURSIVE PermissiveDictLoop(_, _, _, _)

\* for i in range(min(len(reference), len(candidate))), from i on: the
\* first failing element ends the loop
PermissiveListLoop(ref, cand, i, path) ==
    IF i >= OverlapLen(ref, cand) THEN Passed({})
    ELSE LET r == assert_valid_json_structure(
                      GetIndex(ref, i), GetIndex(cand, i), Append(path, AtIndex(i)))
         IN  IF ~r.ok THEN r
             ELSE AlsoVisited(PermissiveListLoop(ref, cand, i + 1, path), r.visited)

\* for key in reference.keys(), from the j-th key on
PermissiveDictLoop(ref, cand, j, path) ==
    IF j > Len(KeysOf(ref)) THEN Passed({})
    ELSE LET key == KeysOf(ref)[j]
         IN  IF ~HasKey(cand, key) THEN Failed(ExpectedKey, path, {})
             ELSE LET r == assert_valid_json_structure(
                               GetItem(ref, key), GetItem(cand, key),
                               Append(path, AtKey(key)))
                  IN  IF ~r.ok THEN r
                      ELSE AlsoVisited(PermissiveDictLoop(ref, cand, j + 1, path), r.visited)

\* assert_valid_json_structure(reference, candidate), called at position path
assert_valid_json_structure(ref, cand, path) ==
    IF IsWildcard(ref, cand) THEN Passed({path})
    ELSE IF ~SameType(ref, cand) THEN Failed(ExpectedType, path, {path})
    ELSE IF ListsToCompare(ref, cand)
        THEN AlsoVisited(PermissiveListLoop(ref, cand, 0, path), {path})
    ELSE IF DictsToCompare(ref, cand)
        THEN AlsoVisited(PermissiveDictLoop(ref, cand, 1, path), {path})
    ELSE IF TypeOf(ref) = "str"
        THEN IF ~HexTagOk(ref, cand) THEN Failed(ExpectedHex, path, {path})
             ELSE IF ~AddressTagOk(ref, cand) THEN Failed(ExpectedAddress, path, {path})
             ELSE Passed({path})
    ELSE Passed({path})

(***************************************************************************)
(* The strict assert_valid_json_structure (tests/utils.py:40-57).          *)
(***************************************************************************)
\* type(reference) == type(candidate), tests/utils.py:47
StrictSameType(ref, cand) == TypeOf(ref) = TypeOf(cand)

\* type(reference) == list and reference and candidate, tests/utils.py:48
StrictListsToCompare(ref, cand) ==
    TypeOf(ref) = "list" /\ LenOf(ref) > 0 /\ LenOf(cand) > 0

\* min(len(reference), len(candidate)), tests/utils.py:49
StrictOverlapLen(ref, cand) == Min(LenOf(ref), LenOf(cand))

\* isinstance(value, type): Python's bool is a subclass of int, so a boolean
\* is an instance of int; no other two JSON types are so related
IsInstance(value, type) ==
    \/ TypeOf(value) = type
    \/ TypeOf(value) = "bool" /\ type = "int"

RECURSIVE strict_assert_valid_json_structure(_, _, _)
RECURSIVE StrictListLoop(_, _, _, _)
RECURSIVE StrictDictLoop(_, _, _, _)

StrictListLoop(ref, cand, i, path) ==
    IF i >= StrictOverlapLen(ref, cand) THEN Passed({})
    ELSE LET r == strict_assert_valid_json_structure(
                      GetIndex(ref, i), GetIndex(cand, i), Append(path, AtIndex(i)))
         IN  IF ~r.ok THEN r
             ELSE AlsoVisited(StrictListLoop(ref, cand, i + 1, path), r.visited)

\* for key in reference.keys(): the key, the isinstance check, and the
\* recursion into a dict or list value
StrictDictLoop(ref, cand, j, path) ==
    IF j > Len(KeysOf(ref)) THEN Passed({})
    ELSE LET key == KeysOf(ref)[j]
             here == Append(path, AtKey(key))
         IN  IF ~HasKey(cand, key) THEN Failed(ExpectedKey, path, {})
             ELSE LET reference_type == TypeOf(GetItem(ref, key))
                      r == IF ~IsInstance(GetItem(cand, key), reference_type)
                               THEN Failed(ExpectedType, here, {here})
                           ELSE IF reference_type \in {"dict", "list"}
                               THEN strict_assert_valid_json_structure(
                                        GetItem(ref, key), GetItem(cand, key), here)
                           ELSE Passed({here})
                  IN  IF ~r.ok THEN r
                      ELSE AlsoVisited(StrictDictLoop(ref, cand, j + 1, path), r.visited)

strict_assert_valid_json_structure(ref, cand, path) ==
    IF ~StrictSameType(ref, cand) THEN Failed(ExpectedType, path, {path})
    ELSE IF StrictListsToCompare(ref, cand)
        THEN AlsoVisited(StrictListLoop(ref, cand, 0, path), {path})
    ELSE IF TypeOf(ref) = "dict"
        THEN AlsoVisited(StrictDictLoop(ref, cand, 1, path), {path})
    ELSE Passed({path})

(***************************************************************************)
(* The values the validators are called with.                              *)
(***************************************************************************)
\* longest list that Init enumerates
MaxListLen == 2

\* the keys of the enumerated dicts, in insertion order
Keys == <<"a", "b">>

HexA == <<"0", "x", "1">>
HexB == <<"0", "x", "2">>
AddrA == One1 \o <<"q", "p">>
AddrB == One1 \o <<"z", "r">>
\* has the one1 prefix, and a checksum that does not verify
AddrBad == One1 \o <<"q", "q">>
Plain == <<"a", "b">>

\* the values found inside the enumerated containers
NestedAtoms == {JNull, JBool(1), JInt(1), JStr(HexA)}

TopAtoms ==
    NestedAtoms \cup
        {JFloat(15), JStr(HexB), JStr(AddrA), JStr(AddrB), JStr(AddrBad), JStr(Plain)}

\* every sequence over E of length n
RECURSIVE SeqsOfLen(_, _)
SeqsOfLen(E, n) ==
    IF n = 0 THEN {<<>>}
    ELSE {Append(s, e) : s \in SeqsOfLen(E, n - 1), e \in E}

ListsOver(E) == {JList(items) : items \in UNION {SeqsOfLen(E, n) : n \in 0..MaxListLen}}

\* the subsequences of Keys
KeyChoices ==
    {<<>>} \cup {<<Keys[j]>> : j \in 1..Len(Keys)} \cup {Keys}

DictsOver(E) ==
    UNION {{JDict([j \in 1..Len(ks) |-> [k |-> ks[j], v |-> vals[j]]]) :
                vals \in SeqsOfLen(E, Len(ks))} : ks \in KeyChoices}

Level1 == ListsOver(NestedAtoms) \cup DictsOver(NestedAtoms)

Level2 ==
    {JList(<<v>>) : v \in Level1} \cup {JDict(<<[k |-> Keys[1], v |-> v]>>) : v \in Level1}

JsonValues == TopAtoms \cup Level1 \cup Level2

\* get_calldata_gas is not used by the validations
GasIdle ==
    /\ bytecode = <<>>
    /\ plainCall = NotCalled
    /\ prefixedCall = NotCalled

IdleButJson == GasIdle /\ RpcIdle /\ LockIdle /\ EraIdle /\ SendIdle /\ SuiteIdle

JsonInit ==
    /\ reference \in JsonValues
    /\ candidate \in JsonValues
    /\ permissive = NotRun
    /\ strict = NotRun
    /\ IdleButJson

\* a test of rpc_tests or regression validates candidate against reference
ValidatePermissive ==
    /\ ~permissive.ran
    /\ ~strict.ran
    /\ permissive' = assert_valid_json_structure(reference, candidate, <<>>)
    /\ UNCHANGED <<reference, candidate, strict, otherThanJson>>

\* a test of localnet/tests validates candidate against reference
ValidateStrict ==
    /\ ~permissive.ran
    /\ ~strict.ran
    /\ strict' = strict_assert_valid_json_structure(reference, candidate, <<>>)
    /\ UNCHANGED <<reference, candidate, permissive, otherThanJson>>

JsonNext == ValidatePermissive \/ ValidateStrict

SpecJson == JsonInit /\ [][JsonNext]_vars

(***************************************************************************)
(* Claims about get_calldata_gas, checked under SpecGas.                   *)
(***************************************************************************)
\* what is left of s once one leading 0x is taken off
AfterOnePrefix(s) ==
    IF Len(s) >= 2 /\ s[1] = "0" /\ s[2] = "x" THEN [i \in 1..(Len(s) - 2) |-> s[i + 2]]
    ELSE s

HexDigitsOnly(h) == \A i \in 1..Len(h) : IsHexDigit(h[i])

\* s is a hex string of even length, with or without a leading 0x
IsEvenHexString(s) ==
    /\ HexDigitsOnly(AfterOnePrefix(s))
    /\ Len(AfterOnePrefix(s)) % 2 = 0

\* the number of 0x00 bytes a string of hex digits spells
ZeroByteCount(h) ==
    Cardinality({i \in 1..(Len(h) \div 2) : h[2 * i - 1] = "0" /\ h[2 * i] = "0"})

ExpectedGas(s) ==
    LET h == AfterOnePrefix(s)
        zeros == ZeroByteCount(h)
    IN  4 * zeros + 16 * ((Len(h) \div 2) - zeros)

\* C1: for every hex string of even length, with or without a leading 0x,
\* get_calldata_gas returns 4 * (number of 0x00 bytes) + 16 * (number of
\* non-zero bytes); 0x6001600101 gives 80, and 21000 + 80 = 21080.
C1_GasIsFourPerZeroSixteenPerNonZero ==
    /\ (plainCall.called /\ IsEvenHexString(bytecode))
          => plainCall = Returned(ExpectedGas(bytecode))
    /\ (prefixedCall.called /\ IsEvenHexString(HexPrefix \o bytecode))
          => prefixedCall = Returned(ExpectedGas(HexPrefix \o bytecode))
    /\ (plainCall.called /\ bytecode = main_smart_contract_call)
          => /\ plainCall = Returned(80)
             /\ DEFAULT_GAS + plainCall.value = 21080

\* C1 witness: the call on 0x6001600101 has returned 80
C1_Witness ==
    /\ bytecode = main_smart_contract_call
    /\ IsEvenHexString(bytecode)
    /\ plainCall = Returned(80)

\* C2: get_calldata_gas fails with the length error, and returns no value,
\* whenever the number of characters left after stripping one leading 0x is
\* odd (for a string of hex digits: the number of hex digits).
C2_OddLengthRaisesLengthError ==
    /\ (plainCall.called /\ Len(AfterOnePrefix(bytecode)) % 2 = 1)
          => plainCall = Raised(InvalidLength)
    /\ (prefixedCall.called /\ Len(AfterOnePrefix(HexPrefix \o bytecode)) % 2 = 1)
          => prefixedCall = Raised(InvalidLength)

\* C2 witness: three hex digits after the prefix, and the length error raised
C2_Witness ==
    /\ bytecode = <<"0", "x", "1", "0", "0">>
    /\ HexDigitsOnly(AfterOnePrefix(bytecode))
    /\ plainCall = Raised(InvalidLength)

\* both calls returned the same gas, or both failed
SameOutcome(a, b) ==
    \/ a.raised # "" /\ b.raised # ""
    \/ a.raised = "" /\ b.raised = "" /\ a.value = b.value

\* C3 as stated: for all input strings s, get_calldata_gas("0x" + s) has the
\* same outcome as get_calldata_gas(s).
C3_Original_PrefixInsensitiveForAllStrings ==
    (plainCall.called /\ prefixedCall.called)
        => SameOutcome(plainCall, prefixedCall)

\* C3 amended: for all input strings s that do not themselves start with 0x,
\* get_calldata_gas("0x" + s) has the same outcome as get_calldata_gas(s):
\* the same returned gas, or the same failure.
C3_PrefixInsensitiveUnlessAlreadyPrefixed ==
    (plainCall.called /\ prefixedCall.called /\ ~StartsWith(bytecode, HexPrefix))
        => /\ SameOutcome(plainCall, prefixedCall)
           /\ plainCall = prefixedCall

\* C3 witness: both calls made on an unprefixed string, both returning 20
C3_Witness ==
    /\ bytecode = <<"0", "0", "f", "f">>
    /\ plainCall = Returned(20)
    /\ prefixedCall = Returned(20)

(***************************************************************************)
(* Claims about the validators, checked under SpecJson.                    *)
(***************************************************************************)
\* the value found in v at a position
RECURSIVE At(_, _)
At(v, path) ==
    IF path = <<>> THEN v
    ELSE At(IF Head(path).idx >= 0 THEN GetIndex(v, Head(path).idx)
            ELSE GetItem(v, Head(path).key),
            Tail(path))

IsPrefix(p, q) == Len(p) <= Len(q) /\ SubSeq(q, 1, Len(p)) = p

\* the positions one step below p that an outcome visited
ChildrenVisited(outcome, p) ==
    {q \in outcome.visited : Len(q) = Len(p) + 1 /\ IsPrefix(p, q)}

\* the outcome is a failure raised at p or below p
FailedWithin(outcome, p) == ~outcome.ok /\ IsPrefix(p, outcome.at)

\* c is r itself, or r with extra object keys or extra trailing list
\* elements added at any nesting depth
RECURSIVE Extends(_, _)
Extends(c, r) ==
    \/ c = r
    \/ /\ TypeOf(r) = "list" /\ TypeOf(c) = "list"
       /\ LenOf(c) >= LenOf(r)
       /\ \A i \in 0..(LenOf(r) - 1) : Extends(GetIndex(c, i), GetIndex(r, i))
    \/ /\ TypeOf(r) = "dict" /\ TypeOf(c) = "dict"
       /\ \A j \in 1..LenOf(r) :
              /\ HasKey(c, r.kids[j].k)
              /\ Extends(GetItem(c, r.kids[j].k), r.kids[j].v)

\* C4: the permissive assert_valid_json_structure passes whenever candidate
\* equals reference, and whenever candidate is reference with extra object
\* keys or extra trailing list elements added at any nesting depth.
C4_SupersetsPass ==
    (permissive.ran /\ Extends(candidate, reference)) => permissive.ok

\* C4 witness: an extra key added one level down, and the validation passed
C4_Witness ==
    /\ reference = JDict(<<[k |-> "a", v |-> JDict(<<[k |-> "a", v |-> JInt(1)]>>)]>>)
    /\ candidate = JDict(<<[k |-> "a", v |-> JDict(<<[k |-> "a", v |-> JInt(1)],
                                                     [k |-> "b", v |-> JStr(HexA)]>>)]>>)
    /\ Extends(candidate, reference)
    /\ permissive.ran /\ permissive.ok

\* some key of an object of r, at any nesting depth, is absent from the
\* object of c at the same position
RECURSIVE MissingKey(_, _)
MissingKey(r, c) ==
    \/ /\ TypeOf(r) = "dict" /\ TypeOf(c) = "dict"
       /\ \E j \in 1..LenOf(r) :
              \/ ~HasKey(c, r.kids[j].k)
              \/ HasKey(c, r.kids[j].k) /\ MissingKey(r.kids[j].v, GetItem(c, r.kids[j].k))
    \/ /\ TypeOf(r) = "list" /\ TypeOf(c) = "list"
       /\ \E i \in 0..(Min(LenOf(r), LenOf(c)) - 1) :
              MissingKey(GetIndex(r, i), GetIndex(c, i))

\* C5: the permissive assert_valid_json_structure fails whenever some key of
\* a reference object, at any nesting depth of the reference, is absent from
\* the corresponding candidate object.
C5_MissingKeyFails ==
    (permissive.ran /\ MissingKey(reference, candidate)) => ~permissive.ok

\* C5 witness: key b is missing one level down, and the key assertion failed there
C5_Witness ==
    /\ reference = JList(<<JDict(<<[k |-> "a", v |-> JInt(1)], [k |-> "b", v |-> JInt(1)]>>)>>)
    /\ candidate = JList(<<JDict(<<[k |-> "a", v |-> JInt(1)]>>)>>)
    /\ MissingKey(reference, candidate)
    /\ permissive = Failed(ExpectedKey, <<AtIndex(0)>>, {<<>>, <<AtIndex(0)>>, <<AtIndex(0), AtKey("a")>>})

\* the string carries the hex tag
HexTagged(v) == Len(v.s) >= 2 /\ v.s[1] = "0" /\ v.s[2] = "x"

\* the string is a reference address: the one1 prefix, and valid
AddressTagged(v) ==
    /\ Len(v.s) >= 4 /\ v.s[1] = "o" /\ v.s[2] = "n" /\ v.s[3] = "e" /\ v.s[4] = "1"
    /\ is_valid_address(v.s)

\* what the tags of two strings ask for
TagsAgree(r, c) ==
    /\ HexTagged(r) => HexTagged(c)
    /\ AddressTagged(r) => is_valid_address(c.s)

\* C6: in the permissive assert_valid_json_structure, when a reference string
\* starts with 0x the candidate string must start with 0x, and when a
\* reference string starts with one1 and is a valid address the candidate
\* must be a valid address; otherwise validation fails.  Only the tag is
\* compared, never the value.
C6_StringTagsOnly ==
    permissive.ran =>
        /\ (TypeOf(reference) = "str" /\ TypeOf(candidate) = "str")
              => (permissive.ok <=> TagsAgree(reference, candidate))
        /\ \A p \in permissive.visited :
              (/\ TypeOf(At(reference, p)) = "str"
               /\ TypeOf(At(candidate, p)) = "str"
               /\ ~TagsAgree(At(reference, p), At(candidate, p)))
                  => (~permissive.ok /\ permissive.at = p)

\* C6 witness: two different hex strings, and the validation passed
C6_Witness ==
    /\ reference = JStr(HexA)
    /\ candidate = JStr(HexB)
    /\ reference.s # candidate.s
    /\ permissive.ran /\ permissive.ok

\* C7: in the permissive assert_valid_json_structure null is a wildcard: if
\* reference is null or candidate is null, at the top level or at any
\* position reached by the recursion, that comparison passes without any
\* further check.
C7_NullIsWildcard ==
    permissive.ran =>
        /\ (TypeOf(reference) = "NoneType" \/ TypeOf(candidate) = "NoneType")
              => permissive = Passed({<<>>})
        /\ \A p \in permissive.visited :
              (TypeOf(At(reference, p)) = "NoneType" \/ TypeOf(At(candidate, p)) = "NoneType")
                  => /\ ~FailedWithin(permissive, p)
                     /\ ChildrenVisited(permissive, p) = {}

\* C7 witness: a null candidate element against a list in the reference
C7_Witness ==
    /\ reference = JList(<<JList(<<JInt(1), JStr(HexA)>>)>>)
    /\ candidate = JList(<<JNull>>)
    /\ permissive = Passed({<<>>, <<AtIndex(0)>>})

\* C8: in the permissive assert_valid_json_structure, for non-null reference
\* and candidate of different types the comparison raises a structural
\* error; a boolean never matches a number and an integer never matches a
\* float.
C8_TypeMismatchRaises ==
    permissive.ran =>
        \A p \in permissive.visited :
            (/\ TypeOf(At(reference, p)) # "NoneType"
             /\ TypeOf(At(candidate, p)) # "NoneType"
             /\ TypeOf(At(reference, p)) # TypeOf(At(candidate, p)))
                => permissive = Failed(ExpectedType, p, permissive.visited)

\* C8 witness: an integer reference element against a boolean
C8_Witness ==
    /\ reference = JDict(<<[k |-> "a", v |-> JInt(1)]>>)
    /\ candidate = JDict(<<[k |-> "a", v |-> JBool(1)]>>)
    /\ permissive = Failed(ExpectedType, <<AtKey("a")>>, {<<>>, <<AtKey("a")>>})

\* what C9 says of one outcome: at every visited pair of lists, only
\* positions of the overlap are visited, all of them when the validation
\* passes, and none (with no failure there) when either list is empty
OverlapOnly(outcome) ==
    \A p \in outcome.visited :
        LET r == At(reference, p)
            c == At(candidate, p)
            overlap == {Append(p, AtIndex(i)) : i \in 0..(Min(LenOf(r), LenOf(c)) - 1)}
        IN  (TypeOf(r) = "list" /\ TypeOf(c) = "list")
                => /\ ChildrenVisited(outcome, p) \subseteq overlap
                   /\ outcome.ok => ChildrenVisited(outcome, p) = overlap
                   /\ (LenOf(r) = 0 \/ LenOf(c) = 0)
                          => /\ ChildrenVisited(outcome, p) = {}
                             /\ ~FailedWithin(outcome, p)

\* C9: for two lists, assert_valid_json_structure (either variant) compares
\* only the positions 0 .. min(len(reference), len(candidate)) - 1 pairwise;
\* elements past the overlap on either side are never inspected, and if
\* either list is empty no element is checked and the comparison passes.
C9_ListOverlapOnly ==
    /\ permissive.ran => OverlapOnly(permissive)
    /\ strict.ran => OverlapOnly(strict)

\* C9 witness: the reference's second element has no counterpart; only
\* position 0 was compared
C9_Witness ==
    /\ reference = JList(<<JInt(1), JStr(HexA)>>)
    /\ candidate = JList(<<JInt(1)>>)
    /\ permissive = Passed({<<>>, <<AtIndex(0)>>})

\* under some key of an object of r, at any nesting depth reached through
\* the overlap of lists and the keys both have, c's value has another type
RECURSIVE KeyTypeDiffers(_, _)
KeyTypeDiffers(r, c) ==
    \/ /\ TypeOf(r) = "dict" /\ TypeOf(c) = "dict"
       /\ \E j \in 1..LenOf(r) :
              /\ HasKey(c, r.kids[j].k)
              /\ \/ TypeOf(r.kids[j].v) # TypeOf(GetItem(c, r.kids[j].k))
                 \/ KeyTypeDiffers(r.kids[j].v, GetItem(c, r.kids[j].k))
    \/ /\ TypeOf(r) = "list" /\ TypeOf(c) = "list"
       /\ \E i \in 0..(Min(LenOf(r), LenOf(c)) - 1) :
              KeyTypeDiffers(GetIndex(r, i), GetIndex(c, i))

\* C10: the strict validator enforces exact type equality for every
\* reference key, recursively: it fails whenever the candidate's value under
\* a reference key has a type different from the reference's value under
\* that key, including boolean versus integer and null versus non-null.
C10_StrictExactTypePerKey ==
    (strict.ran /\ KeyTypeDiffers(reference, candidate)) => ~strict.ok

\* the same with the one case left out in which isinstance differs from type
\* equality: an integer in the reference, a boolean in the candidate
RECURSIVE KeyTypeDiffersNotBoolForInt(_, _)
KeyTypeDiffersNotBoolForInt(r, c) ==
    \/ /\ TypeOf(r) = "dict" /\ TypeOf(c) = "dict"
       /\ \E j \in 1..LenOf(r) :
              /\ HasKey(c, r.kids[j].k)
              /\ \/ /\ TypeOf(r.kids[j].v) # TypeOf(GetItem(c, r.kids[j].k))
                    /\ ~(/\ TypeOf(r.kids[j].v) = "int"
                         /\ TypeOf(GetItem(c, r.kids[j].k)) = "bool")
                 \/ KeyTypeDiffersNotBoolForInt(r.kids[j].v, GetItem(c, r.kids[j].k))
    \/ /\ TypeOf(r) = "list" /\ TypeOf(c) = "list"
       /\ \E i \in 0..(Min(LenOf(r), LenOf(c)) - 1) :
              KeyTypeDiffersNotBoolForInt(GetIndex(r, i), GetIndex(c, i))

\* C10, the part the code does enforce: every type difference under a
\* reference key other than a boolean where the reference has an integer
C10_StrictRejectsAllButBoolForInt ==
    (strict.ran /\ KeyTypeDiffersNotBoolForInt(reference, candidate)) => ~strict.ok

(***************************************************************************)
(* Response texts and json.loads.  A response text is                      *)
(*     [kind |-> "empty"   the empty string,                               *)
(*               "invalid" a text that is not JSON,                        *)
(*               "value"   the JSON text of a value that is no object,     *)
(*               "object"  the JSON text of an object,                     *)
(*      members |-> an object text's members in the order written, each    *)
(*                  [k |-> name, v |-> value]; a name may be written twice,*)
(*      value |-> a "value" text's value].                                 *)
(***************************************************************************)
EmptyText == [kind |-> "empty", members |-> <<>>, value |-> JNull]
InvalidText == [kind |-> "invalid", members |-> <<>>, value |-> JNull]
ValueText(v) == [kind |-> "value", members |-> <<>>, value |-> v]
ObjectText(members) == [kind |-> "object", members |-> members, value |-> JNull]

\* d[key] = value on a Python dict: a key already there keeps its place and
\* takes the new value, a new key goes to the end
SetItem(pairs, key, value) ==
    IF \E j \in 1..Len(pairs) : pairs[j].k = key
        THEN [j \in 1..Len(pairs) |->
                 IF pairs[j].k = key THEN [k |-> key, v |-> value] ELSE pairs[j]]
    ELSE Append(pairs, [k |-> key, v |-> value])

\* the dict json.loads builds from an object text's members, one by one
RECURSIVE DictFromMembers(_, _)
DictFromMembers(members, pairs) ==
    IF members = <<>> THEN pairs
    ELSE DictFromMembers(Tail(members), SetItem(pairs, Head(members).k, Head(members).v))

\* json.loads(response): <<TRUE, value>>, or <<FALSE, JNull>> for the
\* json.JSONDecodeError raised on an empty text and on a text that is not JSON
json_loads(text) ==
    IF text.kind \in {"empty", "invalid"} THEN <<FALSE, JNull>>
    ELSE IF text.kind = "value" THEN <<TRUE, text.value>>
    ELSE <<TRUE, JDict(DictFromMembers(text.members, <<>>))>>

\* the string "2.0"
TwoPointZero == <<"2", ".", "0">>

\* what a call of is_valid_json_rpc ends in
NoAttributeKeys == "AttributeError: object has no attribute 'keys'"

\* faulty variant: the error object is not looked into
ErrorObjectIsValidUnchecked(error) == TypeOf(error) = "dict"

\* lines 68-79 of is_valid_json_rpc: the error member is a dict with an int code and a str message
ErrorObjectIsValid(error) ==
    /\ TypeOf(error) = "dict"
    /\ HasKey(error, "code")
    /\ IsInstance(GetItem(error, "code"), "int")
    /\ HasKey(error, "message")
    /\ IsInstance(GetItem(error, "message"), "str")

\* is_valid_json_rpc(response): "True", "False", or the AttributeError that
\* d.keys() raises when the text parses to a value that is no dict
is_valid_json_rpc(text) ==
    LET loaded == json_loads(text)
        d == loaded[2]
    IN  IF ~loaded[1] THEN "False"
        ELSE IF TypeOf(d) # "dict" THEN NoAttributeKeys
        ELSE IF ~HasKey(d, "jsonrpc") THEN "False"
        ELSE IF GetItem(d, "jsonrpc") # JStr(TwoPointZero) THEN "False"
        ELSE IF HasKey(d, "result")
            THEN IF ~HasKey(d, "id") THEN "False" ELSE "True"
        ELSE IF HasKey(d, "error")
            THEN IF ErrorObjectIsValid(GetItem(d, "error")) THEN "True" ELSE "False"
        ELSE "False"

\* an outcome of check_and_unpack_rpc_response: not called, the returned
\* payload, or the error raised
RpcNotCalled == [called |-> FALSE, raised |-> "", value |-> JNull]
RpcReturned(v) == [called |-> TRUE, raised |-> "", value |-> v]
RpcRaised(e) == [called |-> TRUE, raised |-> e, value |-> JNull]

NoResponse == "AssertionError: No response..."
InvalidJsonResponse == "AssertionError: Invalid JSON response"
ExpectedErrorInResponse == "AssertionError: Expected error in RPC response"
ExpectedResultInResponse == "AssertionError: Expected result in RPC response"

\* not response: the empty string is false
IsFalsy(text) == text.kind = "empty"

\* faulty variant: the whole envelope is handed back
PayloadWholeEnvelope(d, key) == d

\* response["error"] and response["result"]
Payload(d, key) == GetItem(d, key)

check_and_unpack_rpc_response(text, expectError) ==
    LET valid == is_valid_json_rpc(text)
        d == json_loads(text)[2]
    IN  IF IsFalsy(text) THEN RpcRaised(NoResponse)
        ELSE IF valid = NoAttributeKeys THEN RpcRaised(NoAttributeKeys)
        ELSE IF valid # "True" THEN RpcRaised(InvalidJsonResponse)
        ELSE IF expectError
            THEN IF ~HasKey(d, "error") THEN RpcRaised(ExpectedErrorInResponse)
                 ELSE RpcReturned(Payload(d, "error"))
        ELSE IF ~HasKey(d, "result") THEN RpcRaised(ExpectedResultInResponse)
        ELSE RpcReturned(Payload(d, "result"))

(***************************************************************************)
(* The response texts the envelope functions are called with.              *)
(***************************************************************************)
\* a member that may be left out: the values it may have, and Absent
Absent == [t |-> "absent", n |-> 0, s |-> <<>>, kids |-> <<>>]

\* code -32602 and its message, as test_debug_traceCall_override_faulty_from expects
InvalidArgumentCode == JInt(0 - 32602)
InvalidArgumentMessage == JStr(<<"i", "n", "v", "a", "l", "i", "d">>)

ErrorObject(code, message) ==
    JDict(SelectSeq(<<[k |-> "code", v |-> code], [k |-> "message", v |-> message]>>,
                    LAMBDA m : m.v # Absent))

JsonrpcChoices == {Absent, JStr(TwoPointZero), JStr(<<"1", ".", "0">>), JFloat(20)}
IdChoices == {Absent, JInt(1), JNull}
ResultChoices ==
    {Absent, JNull, JInt(7), JStr(HexA),
     JDict(<<[k |-> "blockNumber", v |-> JNull]>>)}
ErrorChoices ==
    {Absent,
     ErrorObject(InvalidArgumentCode, InvalidArgumentMessage),
     ErrorObject(JBool(1), InvalidArgumentMessage),
     ErrorObject(JStr(HexA), InvalidArgumentMessage),
     ErrorObject(Absent, InvalidArgumentMessage),
     ErrorObject(InvalidArgumentCode, JInt(7)),
     ErrorObject(InvalidArgumentCode, Absent),
     InvalidArgumentMessage}
\* an earlier result member of the same text, overwritten by the later one
EarlierResultChoices == {Absent, JInt(9)}

\* the object text with the chosen members, in the order written
EnvelopeText(jsonrpc, id, earlier, result, error) ==
    ObjectText(SelectSeq(<<[k |-> "jsonrpc", v |-> jsonrpc], [k |-> "id", v |-> id],
                           [k |-> "result", v |-> earlier], [k |-> "result", v |-> result],
                           [k |-> "error", v |-> error]>>,
                         LAMBDA m : m.v # Absent))

ResponseTexts ==
    {EmptyText, InvalidText}
        \cup {ValueText(v) : v \in {JNull, JInt(7), JBool(1), JStr(TwoPointZero),
                                    JList(<<JInt(7)>>)}}
        \cup {EnvelopeText(j, i, IF r = Absent THEN Absent ELSE e0, r, e) :
                  j \in JsonrpcChoices, i \in IdChoices, e0 \in EarlierResultChoices,
                  r \in ResultChoices, e \in ErrorChoices}

IdleButRpc == GasIdle /\ JsonIdle /\ LockIdle /\ EraIdle /\ SendIdle /\ SuiteIdle

RpcInit ==
    /\ response \in ResponseTexts
    /\ expect_error \in BOOLEAN
    /\ unpacked = RpcNotCalled
    /\ accepted = ""
    /\ IdleButRpc

\* a test unpacks a response
CheckAndUnpack ==
    /\ ~unpacked.called
    /\ unpacked' = check_and_unpack_rpc_response(response, expect_error)
    /\ UNCHANGED <<response, expect_error, accepted, otherThanRpc>>

\* a helper asks whether a response is a valid envelope
IsValidJsonRpc ==
    /\ accepted = ""
    /\ accepted' = is_valid_json_rpc(response)
    /\ UNCHANGED <<response, expect_error, unpacked, otherThanRpc>>

RpcNext == CheckAndUnpack \/ IsValidJsonRpc

SpecRpc == RpcInit /\ [][RpcNext]_vars

(***************************************************************************)
(* Claims about the envelope functions, stated on the response text as     *)
(* written.                                                                *)
(***************************************************************************)
IsObjectText(text) == text.kind = "object"

\* the names written in an object text
NamesOf(text) == {text.members[j].k : j \in 1..Len(text.members)}

\* the value written last under a name
Member(text, key) ==
    LET last == CHOOSE j \in 1..Len(text.members) :
                    /\ text.members[j].k = key
                    /\ \A i \in 1..Len(text.members) : text.members[i].k = key => i <= j
    IN  text.members[last].v

\* a JSON-RPC 2.0 error object: integer code, string message
IsErrorObject(v) ==
    /\ TypeOf(v) = "dict"
    /\ HasKey(v, "code") /\ TypeOf(GetItem(v, "code")) = "int"
    /\ HasKey(v, "message") /\ TypeOf(GetItem(v, "message")) = "str"

HasVersionTwo(text) ==
    "jsonrpc" \in NamesOf(text) /\ Member(text, "jsonrpc") = JStr(TwoPointZero)

WellFormedSuccess(text) ==
    /\ IsObjectText(text)
    /\ HasVersionTwo(text)
    /\ {"id", "result"} \subseteq NamesOf(text)
    /\ "error" \notin NamesOf(text)

WellFormedError(text) ==
    /\ IsObjectText(text)
    /\ HasVersionTwo(text)
    /\ "result" \notin NamesOf(text)
    /\ "error" \in NamesOf(text)
    /\ IsErrorObject(Member(text, "error"))

\* C11: for a well-formed success envelope and expect_error=False the call
\* returns exactly the value under result, null included; for a well-formed
\* error envelope and expect_error=True it returns exactly the object under
\* error.
C11_ReturnsExactPayload ==
    unpacked.called =>
        /\ (WellFormedSuccess(response) /\ ~expect_error)
               => unpacked = RpcReturned(Member(response, "result"))
        /\ (WellFormedError(response) /\ expect_error)
               => unpacked = RpcReturned(Member(response, "error"))

\* a success envelope whose result is null has been unpacked to null
C11_Witness ==
    /\ unpacked.called
    /\ WellFormedSuccess(response)
    /\ ~expect_error
    /\ Member(response, "result") = JNull
    /\ unpacked = RpcReturned(JNull)

\* an error envelope has been unpacked to its error object
C11_ErrorWitness ==
    /\ unpacked.called
    /\ WellFormedError(response)
    /\ expect_error
    /\ unpacked = RpcReturned(ErrorObject(InvalidArgumentCode, InvalidArgumentMessage))

\* the response has an error member that is no JSON-RPC error object
HasBadError(text) ==
    "error" \in NamesOf(text) /\ ~IsErrorObject(Member(text, "error"))

\* the faults the claim lists
Malformed(text) ==
    \/ text.kind \in {"empty", "invalid"}
    \/ /\ IsObjectText(text)
       /\ \/ ~HasVersionTwo(text)
          \/ "result" \in NamesOf(text) /\ "id" \notin NamesOf(text)
          \/ HasBadError(text)

\* C12: check_and_unpack_rpc_response fails, and returns nothing, when the
\* response is empty, does not parse as JSON, lacks jsonrpc equal to "2.0",
\* has result without id, or has an error whose code is missing or not an
\* integer or whose message is missing or not a string.
C12_MalformedResponsesFail ==
    (unpacked.called /\ Malformed(response)) => unpacked.raised # ""

\* an error object whose only fault is a boolean where the code should be
IsErrorObjectButBoolCode(v) ==
    /\ TypeOf(v) = "dict"
    /\ HasKey(v, "code") /\ TypeOf(GetItem(v, "code")) = "bool"
    /\ HasKey(v, "message") /\ TypeOf(GetItem(v, "message")) = "str"

\* the faults the code catches: those of the claim, except a boolean code and
\* except a faulty error next to a result with an id
MalformedAsEnforced(text) ==
    \/ text.kind \in {"empty", "invalid"}
    \/ /\ IsObjectText(text)
       /\ \/ ~HasVersionTwo(text)
          \/ "result" \in NamesOf(text) /\ "id" \notin NamesOf(text)
          \/ /\ HasBadError(text)
             /\ "result" \notin NamesOf(text)
             /\ ~IsErrorObjectButBoolCode(Member(text, "error"))

\* what holds of the code in place of C12: the faults it does catch
C12_EnforcedFaultsFail ==
    (unpacked.called /\ MalformedAsEnforced(response)) => unpacked.raised # ""

\* an error with a boolean code has been unpacked without a failure
C12_BoolCodeReturned ==
    /\ unpacked.called
    /\ expect_error
    /\ "result" \notin NamesOf(response)
    /\ "error" \in NamesOf(response)
    /\ IsErrorObjectButBoolCode(Member(response, "error"))
    /\ unpacked = RpcReturned(Member(response, "error"))

\* the expectation does not match what the envelope carries
Mismatch(text, expectError) ==
    /\ IsObjectText(text)
    /\ IF expectError THEN "result" \in NamesOf(text) ELSE "error" \in NamesOf(text)

\* C13: check_and_unpack_rpc_response fails whenever the expectation does not
\* match the envelope: expect_error=True with an envelope that carries a
\* result, or expect_error=False with an envelope that carries an error; it
\* never returns a payload in these cases.
C13_MismatchFails ==
    (unpacked.called /\ Mismatch(response, expect_error)) => unpacked.raised # ""

\* what holds of the code in place of C13: a mismatch fails when the
\* envelope carries only the member that was not expected
C13_MismatchFailsForOneMember ==
    (/\ unpacked.called
     /\ Mismatch(response, expect_error)
     /\ ~({"result", "error"} \subseteq NamesOf(response)))
        => unpacked.raised # ""

\* an envelope with both members has been unpacked to its error although it
\* carries a result
C13_BothMembersReturned ==
    /\ unpacked.called
    /\ expect_error
    /\ {"result", "error"} \subseteq NamesOf(response)
    /\ unpacked = RpcReturned(Member(response, "error"))

\* C14: every response text that is_valid_json_rpc accepts has exactly one of
\* the keys result and error, and if error is present it is an object with an
\* integer code and a string message.
C14_AcceptedHasOneWellFormedMember ==
    accepted = "True" =>
        /\ IsObjectText(response)
        /\ ("result" \in NamesOf(response)) # ("error" \in NamesOf(response))
        /\ "error" \in NamesOf(response) => IsErrorObject(Member(response, "error"))

\* what holds of the code in place of C14: an accepted text has a result
\* with an id, or else an error object whose code may also be a boolean
C14_AcceptedHasResultOrErrorObject ==
    accepted = "True" =>
        /\ IsObjectText(response)
        /\ HasVersionTwo(response)
        /\ \/ {"result", "id"} \subseteq NamesOf(response)
           \/ /\ "error" \in NamesOf(response)
              /\ \/ IsErrorObject(Member(response, "error"))
                 \/ IsErrorObjectButBoolCode(Member(response, "error"))

\* a text with both a result and an error has been accepted
C14_BothMembersAccepted ==
    /\ accepted = "True"
    /\ {"result", "error"} \subseteq NamesOf(response)

(***************************************************************************)
(* mutually_exclusive_test: the named locks.  A thread that calls a        *)
(* wrapped test function goes through wrap one statement at a time:        *)
(*   "idle"     not in wrap                                                *)
(*   "acquire"  at _mutually_exclusive_locks[scope].acquire()              *)
(*   "body"     in the call of the wrapped fn                              *)
(*   "sleep"    in the finally block, at time.sleep(...)                   *)
(*   "release"  in the finally block, at ...[scope].release()              *)
(***************************************************************************)
NumThreads == 3
Threads == 1..NumThreads

\* the scope of test_staking.py and the default scope
Scopes == {"staking", ""}
Functions == {"test_delegation", "test_undelegation", "test_default_scope"}
ScopeOf(f) == IF f = "test_default_scope" THEN "" ELSE "staking"

\* the state of a scope's entry in _mutually_exclusive_locks: no entry, an
\* unlocked Lock, or a Lock held by a thread (its number)
NoLock == 0 - 1
Unlocked == 0

NoFunction == "none"

\* faulty variant: acquire never blocks
AcquireNeverBlocks(lock) == TRUE

\* Lock.acquire() goes through only on an unlocked lock
AcquireUnblocked(lock) == lock = Unlocked

\* faulty variant: the finally block sleeps and never releases
FinallyNextNoRelease(at) ==
    IF at = "body" THEN "sleep"
    ELSE "idle"

\* faulty variant: release() before the sleep
FinallyNextReleaseFirst(at) ==
    IF at = "body" THEN "release"
    ELSE IF at = "release" THEN "sleep"
    ELSE "idle"

\* the statement after `at`: the body is followed, on return and on raise,
\* by the finally block, which sleeps and then releases
FinallyNext(at) ==
    IF at = "body" THEN "sleep"
    ELSE IF at = "sleep" THEN "release"
    ELSE "idle"

\* faulty variant: a plain try without finally, the release skipped on raise
RunsFinallyOnReturnOnly(how) == how = "returned"

\* the finally block runs however the body ended
RunsFinally(how) == how \in {"returned", "raised"}

IdleButLock == GasIdle /\ JsonIdle /\ RpcIdle /\ EraIdle /\ SendIdle /\ SuiteIdle

LockInit ==
    /\ locks = [s \in Scopes |-> NoLock]
    /\ decorated = {}
    /\ pc = [t \in Threads |-> "idle"]
    /\ fn = [t \in Threads |-> NoFunction]
    /\ ended = [t \in Threads |-> ""]
    /\ IdleButLock

\* @mutually_exclusive_test(scope=...) applied to f: the scope gets a Lock
\* unless it has one
Decorate(f) ==
    /\ f \notin decorated
    /\ decorated' = decorated \cup {f}
    /\ locks' = IF locks[ScopeOf(f)] = NoLock
                    THEN [locks EXCEPT ![ScopeOf(f)] = Unlocked]
                ELSE locks
    /\ UNCHANGED <<pc, fn, ended, otherThanLock>>

\* thread t calls the wrapped f
Call(t, f) ==
    /\ pc[t] = "idle"
    /\ f \in decorated
    /\ pc' = [pc EXCEPT ![t] = "acquire"]
    /\ fn' = [fn EXCEPT ![t] = f]
    /\ ended' = [ended EXCEPT ![t] = ""]
    /\ UNCHANGED <<locks, decorated, otherThanLock>>

\* acquire() returns in thread t
Acquire(t) ==
    /\ pc[t] = "acquire"
    /\ AcquireUnblocked(locks[ScopeOf(fn[t])])
    /\ locks' = [locks EXCEPT ![ScopeOf(fn[t])] = t]
    /\ pc' = [pc EXCEPT ![t] = "body"]
    /\ UNCHANGED <<decorated, fn, ended, otherThanLock>>

\* the body ends in thread t, by returning or by raising
EndBody(t, how) ==
    /\ pc[t] = "body"
    /\ ended' = [ended EXCEPT ![t] = how]
    /\ pc' = [pc EXCEPT ![t] = IF RunsFinally(how) THEN FinallyNext("body") ELSE "idle"]
    /\ UNCHANGED <<locks, decorated, fn, otherThanLock>>

\* time.sleep(random.uniform(0.5, 1)) ends in thread t
Sleep(t) ==
    /\ pc[t] = "sleep"
    /\ pc' = [pc EXCEPT ![t] = FinallyNext("sleep")]
    /\ UNCHANGED <<locks, decorated, fn, ended, otherThanLock>>

\* release() in thread t
Release(t) ==
    /\ pc[t] = "release"
    /\ locks' = [locks EXCEPT ![ScopeOf(fn[t])] = Unlocked]
    /\ pc' = [pc EXCEPT ![t] = FinallyNext("release")]
    /\ UNCHANGED <<decorated, fn, ended, otherThanLock>>

LockNext ==
    \/ \E f \in Functions : Decorate(f)
    \/ \E t \in Threads, f \in Functions : Call(t, f)
    \/ \E t \in Threads : Acquire(t)
    \/ \E t \in Threads, how \in {"returned", "raised"} : EndBody(t, how)
    \/ \E t \in Threads : Sleep(t)
    \/ \E t \in Threads : Release(t)

SpecLock == LockInit /\ [][LockNext]_vars

\* thread t is executing the body of a decorated function
InBody(t) == pc[t] = "body"

\* thread t is in a call of a function of scope s
InScope(t, s) == pc[t] # "idle" /\ ScopeOf(fn[t]) = s

\* C15: under any interleaving of threads, at most one function decorated
\* with mutually_exclusive_test of the same scope is executing its body at
\* any time; functions of different scopes do not block each other: a call
\* waiting at acquire can go on unless a call of its own scope holds the lock.
C15_OneBodyPerScope ==
    /\ \A t, u \in Threads :
           (InBody(t) /\ InBody(u) /\ ScopeOf(fn[t]) = ScopeOf(fn[u])) => t = u
    /\ \A t \in Threads :
           (pc[t] = "acquire" /\ ~ENABLED Acquire(t))
               => \E u \in Threads \ {t} :
                      /\ InScope(u, ScopeOf(fn[t]))
                      /\ locks[ScopeOf(fn[t])] = u

\* two bodies of different scopes run at once while a third call waits for
\* the lock one of them holds
C15_Witness ==
    \E t, u, w \in Threads :
        /\ InBody(t) /\ InBody(u)
        /\ ScopeOf(fn[t]) # ScopeOf(fn[u])
        /\ pc[w] = "acquire"
        /\ ScopeOf(fn[w]) = ScopeOf(fn[t])

\* C16: whenever the body of a decorated function ends, by returning or by
\* raising, the scope's lock is released: a thread holds a lock only from
\* acquire to release of one call, so no finished call holds a lock.
C16_FinishedCallHoldsNoLock ==
    \A t \in Threads :
        /\ pc[t] \in {"idle", "acquire"} => \A s \in Scopes : locks[s] # t
        /\ pc[t] \in {"body", "sleep", "release"} =>
               \A s \in Scopes : locks[s] = t <=> s = ScopeOf(fn[t])

\* a call whose body raised has finished and its scope's lock is unlocked
C16_Witness ==
    \E t \in Threads :
        /\ pc[t] = "idle"
        /\ ended[t] = "raised"
        /\ locks[ScopeOf(fn[t])] = Unlocked

\* C17 as claimed: the release is followed by the sleep, so the lock is
\* already free while the finishing call sleeps.
C17_Original_LockFreeDuringSleep ==
    \A t \in Threads : pc[t] = "sleep" => locks[ScopeOf(fn[t])] # t

\* C17: the sleep is followed by the release: the finishing call holds the
\* lock while it sleeps, so no waiting call of the same scope starts its
\* body during that sleep.
C17_LockHeldDuringSleep ==
    \A t \in Threads :
        pc[t] = "sleep" =>
            /\ locks[ScopeOf(fn[t])] = t
            /\ \A u \in Threads : InScope(u, ScopeOf(fn[t])) /\ u # t => ~InBody(u)

\* a finishing call sleeps while a call of the same scope waits at acquire
C17_Witness ==
    \E t, u \in Threads :
        /\ pc[t] = "sleep"
        /\ pc[u] = "acquire"
        /\ ScopeOf(fn[u]) = ScopeOf(fn[t])
        /\ locks[ScopeOf(fn[t])] = t

(***************************************************************************)
(* The era flags of txs.py.  Tests running side by side call               *)
(* is_cross_shard_era and is_staking_era; a call is taken one statement at *)
(* a time, a statement being the test of the cached flag, one RPC query,   *)
(* or the assignment to the flag.  era_call[c] is the call of caller c:    *)
(*   at        "idle" (no call, or the last call is over), "threshold" (at *)
(*             get_prestaking_epoch), "query" (in all(...), at the next    *)
(*             get_current_epoch), "set" (all(...) was true, at the        *)
(*             assignment)                                                 *)
(*   era       "cross_shard" or "staking": the function called             *)
(*   cached    the value of the flag the call found at its start           *)
(*   threshold the epoch the call compares with                            *)
(*   observed  the epochs the call has got from get_current_epoch, in the  *)
(*             order of endpoints                                          *)
(*   result    "" (none yet), "True", "False": what the call returned      *)
(*   wrap      "" or the decorator ("cross_shard", "staking") whose        *)
(*             wrapper the caller is in                                    *)
(*   body      the wrapper has called the wrapped function                 *)
(***************************************************************************)
MaxEpoch == 2
NumCallers == 2
Callers == 1..NumCallers

\* endpoints = [shard 0, shard 1], by position
NumEndpoints == 2
Endpoints == 1..NumEndpoints
\* endpoints[beacon_shard_id]
BeaconEndpoint == 1

\* the threshold of is_cross_shard_era
CrossShardEpoch == 1

Eras == {"cross_shard", "staking"}

NoEraCall ==
    [at |-> "idle", era |-> "cross_shard", cached |-> FALSE, threshold |-> 0,
     observed |-> <<>>, result |-> "", wrap |-> "", body |-> FALSE]

FlagOf(era) == IF era = "cross_shard" THEN _is_cross_shard_era ELSE _is_staking_era

\* if _is_cross_shard_era: return True / if _is_staking_era: return True
ReturnsCached(flag) == flag

\* faulty variant: anything counts as past the threshold
AtOrPastAlways(observedEpoch, threshold) == TRUE

\* get_current_epoch(e) >= threshold
AtOrPast(observedEpoch, threshold) == observedEpoch >= threshold

\* what the call that sets the flag returns: is_cross_shard_era returns True
\* (line 221), is_staking_era falls through to return False (line 250)
ResultAfterSet(era) == IF era = "cross_shard" THEN "True" ELSE "False"

IdleButEra == GasIdle /\ JsonIdle /\ RpcIdle /\ LockIdle /\ SendIdle /\ SuiteIdle

EraInit ==
    /\ epoch = [e \in Endpoints |-> 0]
    /\ prestaking_epoch \in 1..MaxEpoch
    /\ _is_cross_shard_era = FALSE
    /\ _is_staking_era = FALSE
    /\ era_call = [c \in Callers |-> NoEraCall]
    /\ IdleButEra

\* the shard behind endpoint e enters its next epoch
AdvanceEpoch(e) ==
    /\ epoch[e] < MaxEpoch
    /\ epoch' = [epoch EXCEPT ![e] = epoch[e] + 1]
    /\ UNCHANGED <<prestaking_epoch, _is_cross_shard_era, _is_staking_era, era_call,
                   otherThanEra>>

\* caller c calls is_cross_shard_era() or is_staking_era(): the test of the
\* cached flag, and the sleep when the flag is not set
StartEraCall(c, era) ==
    /\ era_call[c].at = "idle"
    /\ ~era_call[c].body
    /\ era_call' =
           [era_call EXCEPT ![c] =
               IF ReturnsCached(FlagOf(era))
                   THEN [NoEraCall EXCEPT !.era = era, !.cached = FlagOf(era),
                                          !.result = "True",
                                          !.wrap = era_call[c].wrap]
               ELSE [NoEraCall EXCEPT !.era = era, !.cached = FlagOf(era),
                                      !.threshold = CrossShardEpoch,
                                      !.wrap = era_call[c].wrap,
                                      !.at = IF era = "staking" THEN "threshold"
                                             ELSE "query"]]
    /\ UNCHANGED <<epoch, prestaking_epoch, _is_cross_shard_era, _is_staking_era,
                   otherThanEra>>

\* threshold_epoch = blockchain.get_prestaking_epoch(endpoints[beacon_shard_id])
GetPrestakingEpoch(c) ==
    /\ era_call[c].at = "threshold"
    /\ era_call' = [era_call EXCEPT ![c].threshold = prestaking_epoch,
                                    ![c].at = "query"]
    /\ UNCHANGED <<epoch, prestaking_epoch, _is_cross_shard_era, _is_staking_era,
                   otherThanEra>>

\* the next blockchain.get_current_epoch(e) of all(...): all stops at the
\* first endpoint short of the threshold, and the call returns False
GetCurrentEpoch(c) ==
    LET call == era_call[c]
        e == Len(call.observed) + 1
        seen == Append(call.observed, epoch[e])
    IN  /\ call.at = "query"
        /\ IF ~AtOrPast(epoch[e], call.threshold)
               THEN era_call' = [era_call EXCEPT ![c].observed = seen,
                                                 ![c].at = "idle",
                                                 ![c].result = "False"]
           ELSE era_call' = [era_call EXCEPT ![c].observed = seen,
                                             ![c].at = IF e = NumEndpoints THEN "set"
                                                       ELSE "query"]
        /\ UNCHANGED <<epoch, prestaking_epoch, _is_cross_shard_era, _is_staking_era,
                       otherThanEra>>

\* _is_cross_shard_era = True; return True / _is_staking_era = True; return False
SetEraFlag(c) ==
    /\ era_call[c].at = "set"
    /\ _is_cross_shard_era' = (_is_cross_shard_era \/ era_call[c].era = "cross_shard")
    /\ _is_staking_era' = (_is_staking_era \/ era_call[c].era = "staking")
    /\ era_call' = [era_call EXCEPT ![c].at = "idle",
                                    ![c].result = ResultAfterSet(era_call[c].era)]
    /\ UNCHANGED <<epoch, prestaking_epoch, otherThanEra>>

EraNext ==
    \/ \E e \in Endpoints : AdvanceEpoch(e)
    \/ \E c \in Callers, era \in Eras : StartEraCall(c, era)
    \/ \E c \in Callers : GetPrestakingEpoch(c)
    \/ \E c \in Callers : GetCurrentEpoch(c)
    \/ \E c \in Callers : SetEraFlag(c)

SpecEra == EraInit /\ [][EraNext]_vars

\* the threshold of an era function
ThresholdOf(era) == IF era = "cross_shard" THEN CrossShardEpoch ELSE prestaking_epoch

\* caller c is at the assignment after it observed every endpoint's epoch at
\* or past the threshold of `era`
ObservedAllPast(c, era) ==
    /\ era_call[c].era = era
    /\ era_call[c].at = "set"
    /\ Len(era_call[c].observed) = NumEndpoints
    /\ \A e \in Endpoints : era_call[c].observed[e] >= ThresholdOf(era)

\* in this step the flag of `era` goes from flag to flagNext
WriteOnceStep(era, flag, flagNext) ==
    /\ flag => flagNext
    /\ (~flag /\ flagNext) =>
           \E c \in Callers : /\ ObservedAllPast(c, era)
                              /\ era_call'[c].at = "idle"

\* in this step caller c gets another epoch from get_current_epoch
QueriesEpoch(c) == Len(era_call'[c].observed) > Len(era_call[c].observed)

\* C18: the cached era flags are write-once: each starts false, is set to
\* true only by a call that observed every endpoint's epoch at or past the
\* threshold, is never set back to false, and a call of is_cross_shard_era /
\* is_staking_era that finds its flag true returns True without any epoch
\* query.
C18_EraFlagsWriteOnce ==
    /\ ~_is_cross_shard_era /\ ~_is_staking_era
    /\ [][/\ WriteOnceStep("cross_shard", _is_cross_shard_era, _is_cross_shard_era')
          /\ WriteOnceStep("staking", _is_staking_era, _is_staking_era')
          /\ \A c \in Callers :
                 /\ QueriesEpoch(c) => ~era_call[c].cached
                 /\ (era_call[c].at = "idle" /\ era_call'[c].at # "idle")
                        => ~FlagOf(era_call'[c].era)
                 /\ era_call'[c].cached
                        => era_call'[c].observed = <<>> /\ era_call'[c].result = "True"]_vars

\* both flags are set, and a call that found its flag set has returned True
\* without a query
C18_Witness ==
    /\ _is_cross_shard_era
    /\ _is_staking_era
    /\ \E c \in Callers :
           /\ era_call[c].cached
           /\ era_call[c].at = "idle"
           /\ era_call[c].observed = <<>>
           /\ era_call[c].result = "True"

(***************************************************************************)
(* The send helpers of txs.py, one call of one helper against a node.      *)
(* chain is what the node knows:                                           *)
(*   balance   the sender's balance on the source shard, in tenths of ONE  *)
(*   tx_count  the sender's transaction count on that shard                *)
(*   tx        "unknown", "pending" (in the pool, no block yet) or         *)
(*             "confirmed": the transaction of the descriptor              *)
(* send_call is the call:                                                  *)
(*   helper, confirm_submission, from   what is called, and with what      *)
(*   at        "check" (at assert_valid_test_from_address), "submit" (at   *)
(*             the raw-transaction request), "loop_test" (at the while     *)
(*             condition), "query" (in the loop, at get_transaction),      *)
(*             "sleep" (at the time.sleep that ends the loop body), "done" *)
(*   elapsed   time.time() - start_time, in seconds                        *)
(*   submitted the reply to the raw-transaction request                    *)
(*   last_reply the reply to the latest transaction-by-hash request        *)
(*   count_seen the transaction count the sender check got                 *)
(*   called    the RPC methods requested so far                            *)
(*   ended, failed_at, error, value   how the call ended: "returned" with  *)
(*             a value, or "raised" with an error at "check", "submit" or  *)
(*             "poll"                                                      *)
(***************************************************************************)
tx_timeout == 20

\* 1e18, one ONE, in the unit of chain.balance
OneONE == 10
Balances == {0, 9, 10, 25}

TxStates == {"unknown", "pending", "confirmed"}

\* the helpers of rpc_tests/txs.py, and the send_and_confirm_transaction of
\* tests/txs.py
Helpers ==
    {"send_transaction", "send_staking_transaction",
     "send_and_confirm_transaction", "send_and_confirm_staking_transaction",
     "tests_send_and_confirm_transaction"}
IsStakingHelper(h) == h \in {"send_staking_transaction", "send_and_confirm_staking_transaction"}
IsConfirmHelper(h) ==
    h \in {"send_and_confirm_transaction", "send_and_confirm_staking_transaction"}
\* the helpers that poll for the transaction after submitting it
IsPollingHelper(h) == IsConfirmHelper(h) \/ h = "tests_send_and_confirm_transaction"

SubmissionMethod(h) ==
    IF IsStakingHelper(h) THEN "hmy_sendRawStakingTransaction" ELSE "hmy_sendRawTransaction"
QueryMethod(h) ==
    IF IsStakingHelper(h) THEN "hmy_getStakingTransactionByHash"
    ELSE "hmy_getTransactionByHash"

\* timeout=tx_timeout and timeout=tx_timeout * 2
TimeoutOf(h) == IF IsStakingHelper(h) THEN tx_timeout * 2 ELSE tx_timeout

\* tx_data["hash"], and some other hash
TxHash == JStr(HexA)
OtherHash == JStr(HexB)

\* what a node answers
SuccessReply(result) == EnvelopeText(JStr(TwoPointZero), JInt(1), Absent, result, Absent)
ErrorReply ==
    EnvelopeText(JStr(TwoPointZero), JInt(1), Absent, Absent,
                 ErrorObject(InvalidArgumentCode, InvalidArgumentMessage))
NoReply == [kind |-> "none", members |-> <<>>, value |-> JNull]

PendingRecord == JDict(<<[k |-> "hash", v |-> TxHash], [k |-> "blockNumber", v |-> JNull]>>)
ConfirmedRecord ==
    JDict(<<[k |-> "hash", v |-> TxHash], [k |-> "blockNumber", v |-> JStr(HexB)]>>)

FaultyReplies == {ErrorReply, InvalidText, EmptyText, ValueText(JNull)}
SubmissionReplies == {SuccessReply(TxHash), SuccessReply(OtherHash)} \cup FaultyReplies

\* the answer to a transaction-by-hash request of a node in working order
RecordReply(tx) ==
    IF tx = "unknown" THEN SuccessReply(JNull)
    ELSE IF tx = "pending" THEN SuccessReply(PendingRecord)
    ELSE SuccessReply(ConfirmedRecord)
QueryReplies(tx) == {RecordReply(tx)} \cup FaultyReplies
AllQueryReplies == UNION {QueryReplies(tx) : tx \in TxStates}

InvalidOneAddress == "AssertionError: is an invalid ONE address"
NotOneONE == "AssertionError: Account does not have at least 1 ONE on shard"
AlreadySent == "AssertionError: Account has already sent a transaction, breaking the txs invariant"
UnexpectedHash == "AssertionError: Expected submitted transaction to get tx hash of"
CouldNotConfirm == "AssertionError: Could not confirm transactions on-chain."

\* faulty variant: no balance is too small
BalanceSufficientAlways(balance) == TRUE

\* account.get_balance(...) >= 1e18
BalanceSufficient(balance) == balance >= OneONE

\* assert_valid_test_from_address: the error raised ("" for none) and the
\* RPC methods requested on the way
assert_valid_test_from_address(address, balance, count, is_staking) ==
    IF ~is_valid_address(address)
        THEN [error |-> InvalidOneAddress, called |-> {}]
    ELSE IF ~BalanceSufficient(balance)
        THEN [error |-> NotOneONE, called |-> {"hmy_getBalance"}]
    ELSE IF is_staking
        THEN [error |-> "", called |-> {"hmy_getBalance"}]
    ELSE [error |-> IF count # 0 THEN AlreadySent ELSE "",
          called |-> {"hmy_getBalance", "hmy_getTransactionCount"}]

\* faulty variant: the reply is unpacked whatever confirm_submission says
SubmissionFailureStrict(reply, confirm) ==
    LET got == check_and_unpack_rpc_response(reply, FALSE)
    IN  IF got.raised # "" THEN got.raised
        ELSE IF got.value # TxHash THEN UnexpectedHash
        ELSE ""

\* lines 284-289 and 306-311: the error the reply to the raw-transaction
\* request makes the helper raise, "" for none
SubmissionFailure(reply, confirm) ==
    IF confirm
        THEN LET got == check_and_unpack_rpc_response(reply, FALSE)
             IN  IF got.raised # "" THEN got.raised
                 ELSE IF got.value # TxHash THEN UnexpectedHash
                 ELSE ""
    ELSE LET valid == is_valid_json_rpc(reply)
         IN  IF valid = "True" THEN ""
             ELSE IF valid = NoAttributeKeys THEN NoAttributeKeys
             ELSE InvalidJsonResponse

\* faulty variant: a failed request counts as no record yet
get_transaction_or_none(reply) ==
    IF check_and_unpack_rpc_response(reply, FALSE).raised # "" THEN RpcReturned(JNull)
    ELSE check_and_unpack_rpc_response(reply, FALSE)

\* get_transaction / get_staking_transaction: the reply to the by-hash
\* request goes through check_and_unpack_rpc_response(raw_response, expect_error=False)
get_transaction(reply) == check_and_unpack_rpc_response(reply, FALSE)

\* faulty variant: any record ends the polling
IsConfirmedResponseAnyRecord(tx_response) == tx_response # JNull

\* tx_response is not None and tx_response['blockNumber'] is not None
IsConfirmedResponse(tx_response) ==
    tx_response # JNull /\ GetItem(tx_response, "blockNumber") # JNull

\* the test that ends the polling: rpc_tests/txs.py lines 335-337 and
\* 363-365, tests/txs.py lines 149-150 (tx_response is not None)
EndsPolling(h, tx_response) ==
    IF h = "tests_send_and_confirm_transaction" THEN tx_response # JNull
    ELSE IsConfirmedResponse(tx_response)

\* faulty variant: the while condition is never true
WithinTimeoutNever(elapsed, timeout) == FALSE

\* time.time() - start_time <= timeout
WithinTimeout(elapsed, timeout) == elapsed <= timeout

NewSendCall(h, confirm, from) ==
    [helper |-> h, confirm_submission |-> confirm, from |-> from,
     at |-> IF IsStakingHelper(h) THEN "submit" ELSE "check",
     elapsed |-> 0, submitted |-> NoReply, last_reply |-> NoReply,
     count_seen |-> 0 - 1, called |-> {},
     ended |-> "", failed_at |-> "", error |-> "", value |-> JNull]

SendReturns(call, v) == [call EXCEPT !.at = "done", !.ended = "returned", !.value = v]
SendRaises(call, where, e) ==
    [call EXCEPT !.at = "done", !.ended = "raised", !.failed_at = where, !.error = e]

IdleButSend == GasIdle /\ JsonIdle /\ RpcIdle /\ LockIdle /\ EraIdle /\ SuiteIdle

SendInit ==
    /\ chain \in {c \in [balance : Balances, tx_count : 0..1, tx : TxStates] :
                      /\ c.tx = "confirmed" => c.tx_count = 1
                      /\ c.tx = "pending" => c.tx_count = 0}
    /\ send_call \in {NewSendCall(h, confirm, from) :
                          h \in Helpers, confirm \in BOOLEAN, from \in {AddrA, AddrBad}}
    /\ IsPollingHelper(send_call.helper) => ~send_call.confirm_submission
    /\ IdleButSend

\* assert_valid_test_from_address(tx_data["from"], tx_data["from-shard"], is_staking=False)
AssertValidTestFromAddress ==
    LET checked == assert_valid_test_from_address(send_call.from, chain.balance,
                                                  chain.tx_count, FALSE)
        seen == [send_call EXCEPT !.called = @ \cup checked.called,
                                  !.count_seen = chain.tx_count]
    IN  /\ send_call.at = "check"
        /\ send_call' = IF checked.error # "" THEN SendRaises(seen, "check", checked.error)
                        ELSE [seen EXCEPT !.at = "submit"]
        /\ UNCHANGED <<chain, otherThanSend>>

\* base_request('hmy_sendRawTransaction' / 'hmy_sendRawStakingTransaction') and
\* what the helper makes of the reply; a polling helper goes on to
\* start_time = time.time() and to its while condition
Submit(reply) ==
    LET failure == SubmissionFailure(reply, send_call.confirm_submission)
        sent == [send_call EXCEPT !.called = @ \cup {SubmissionMethod(send_call.helper)},
                                  !.submitted = reply]
    IN  /\ send_call.at = "submit"
        /\ chain' = IF chain.tx = "unknown" /\ reply = SuccessReply(TxHash)
                        THEN [chain EXCEPT !.tx = "pending"]
                    ELSE chain
        /\ send_call' = IF failure # "" THEN SendRaises(sent, "submit", failure)
                        ELSE IF IsPollingHelper(send_call.helper)
                            THEN [sent EXCEPT !.at = "loop_test", !.elapsed = 0]
                        ELSE SendReturns(sent, JNull)
        /\ UNCHANGED otherThanSend

\* tx_response = get_transaction(...) / get_staking_transaction(...) and the
\* test of the record; in rpc_tests/txs.py an unconfirmed record is followed
\* by the sleep, in tests/txs.py by the while condition at once
GetTransaction(reply) ==
    LET got == get_transaction(reply)
        asked == [send_call EXCEPT !.called = @ \cup {QueryMethod(send_call.helper)},
                                   !.last_reply = reply]
    IN  /\ send_call.at = "query"
        /\ reply \in QueryReplies(chain.tx)
        /\ send_call' = IF got.raised # "" THEN SendRaises(asked, "poll", got.raised)
                        ELSE IF EndsPolling(send_call.helper, got.value)
                            THEN SendReturns(asked, got.value)
                        ELSE [asked EXCEPT !.at = IF IsConfirmHelper(send_call.helper)
                                                      THEN "sleep" ELSE "loop_test"]
        /\ UNCHANGED <<chain, otherThanSend>>

\* while time.time() - start_time <= timeout
LoopTest ==
    /\ send_call.at = "loop_test"
    /\ send_call' = IF WithinTimeout(send_call.elapsed, TimeoutOf(send_call.helper))
                        THEN [send_call EXCEPT !.at = "query"]
                    ELSE SendRaises(send_call, "poll", CouldNotConfirm)
    /\ UNCHANGED <<chain, otherThanSend>>

\* time.sleep(random.uniform(0.2, 0.5)): the helper sleeps, for some time
SleepInLoop(seconds) ==
    /\ send_call.at = "sleep"
    /\ send_call' = [send_call EXCEPT !.at = "loop_test", !.elapsed = @ + seconds]
    /\ UNCHANGED <<chain, otherThanSend>>

\* time passes while the helper waits for the reply to its request
TimePasses(seconds) ==
    /\ send_call.at = "query"
    /\ send_call.elapsed <= TimeoutOf(send_call.helper)
    /\ send_call' = [send_call EXCEPT !.elapsed = @ + seconds]
    /\ UNCHANGED <<chain, otherThanSend>>

\* the pending transaction gets into a block
ConfirmTx ==
    /\ send_call.at # "done"
    /\ chain.tx = "pending"
    /\ chain' = [chain EXCEPT !.tx = "confirmed", !.tx_count = @ + 1]
    /\ UNCHANGED <<send_call, otherThanSend>>

SendNext ==
    \/ AssertValidTestFromAddress
    \/ \E reply \in SubmissionReplies : Submit(reply)
    \/ \E reply \in AllQueryReplies : GetTransaction(reply)
    \/ LoopTest
    \/ \E seconds \in {1, tx_timeout} : SleepInLoop(seconds)
    \/ \E seconds \in {1, tx_timeout} : TimePasses(seconds)
    \/ ConfirmTx

SpecSend == SendInit /\ [][SendNext]_vars

RawSubmissions == {"hmy_sendRawTransaction", "hmy_sendRawStakingTransaction"}
ConfirmationQueries == {"hmy_getTransactionByHash", "hmy_getStakingTransactionByHash"}

\* the sender check of the call has been made and found the balance below
\* 1 ONE or the transaction count not 0
SenderRefused ==
    /\ send_call.helper \in {"send_transaction", "send_and_confirm_transaction"}
    /\ send_call.at # "check"
    /\ chain.balance < OneONE \/ send_call.count_seen # 0

\* C19: send_transaction and send_and_confirm_transaction fail before
\* issuing any raw-transaction submission call when the sender's balance on
\* the source shard is below 1 ONE or when the sender's transaction count on
\* that shard is not 0; no submission and no confirmation query is made.
C19_RefusedSenderFailsBeforeSubmission ==
    SenderRefused =>
        /\ send_call.at = "done"
        /\ send_call.ended = "raised"
        /\ send_call.failed_at = "check"
        /\ send_call.submitted = NoReply
        /\ send_call.called \cap (RawSubmissions \cup ConfirmationQueries) = {}

\* send_and_confirm_transaction has failed for a funded sender that had
\* already sent a transaction, with nothing submitted
C19_Witness ==
    /\ SenderRefused
    /\ send_call.helper = "send_and_confirm_transaction"
    /\ chain.balance >= OneONE
    /\ send_call.count_seen = 1
    /\ send_call.error = AlreadySent
    /\ send_call.called = {"hmy_getBalance", "hmy_getTransactionCount"}

\* a confirming helper got a well-formed JSON-RPC error for its submission
SubmissionAnsweredWithError ==
    /\ IsConfirmHelper(send_call.helper)
    /\ send_call.submitted # NoReply
    /\ WellFormedError(send_call.submitted)

\* C20: in send_and_confirm_transaction and
\* send_and_confirm_staking_transaction a well-formed JSON-RPC error reply to
\* the submission call does not fail the helper: confirmation polling still
\* runs and alone decides whether the call returns a record or fails.
C20_SubmissionErrorLeftToPolling ==
    SubmissionAnsweredWithError =>
        /\ send_call.at \in {"loop_test", "query", "sleep", "done"}
        /\ send_call.at = "done" =>
               /\ QueryMethod(send_call.helper) \in send_call.called
               /\ send_call.ended = "raised" => send_call.failed_at = "poll"
               /\ send_call.ended = "returned" => send_call.value = ConfirmedRecord

\* after an error reply to the submission the helper has returned the
\* confirmed record
C20_Witness ==
    /\ SubmissionAnsweredWithError
    /\ send_call.ended = "returned"
    /\ send_call.value = ConfirmedRecord

\* after an error reply to the submission the helper has failed with the
\* confirmation timeout
C20_TimeoutWitness ==
    /\ SubmissionAnsweredWithError
    /\ send_call.ended = "raised"
    /\ send_call.error = CouldNotConfirm

\* the call is one of the confirming helpers of rpc_tests/txs.py and returns
\* in this step
ConfirmHelperReturns ==
    /\ IsConfirmHelper(send_call.helper)
    /\ send_call.ended = ""
    /\ send_call'.ended = "returned"

\* C21: whenever send_and_confirm_transaction or
\* send_and_confirm_staking_transaction of rpc_tests/txs.py returns, the
\* returned record is the result of its transaction-by-hash request for the
\* descriptor's hash and its blockNumber is non-null; a record that is still
\* pending never ends the polling.
C21_ReturnsOnlyConfirmedRecord ==
    [][ConfirmHelperReturns =>
           /\ chain.tx = "confirmed"
           /\ QueryMethod(send_call.helper) \in send_call'.called
           /\ send_call'.last_reply = SuccessReply(send_call'.value)
           /\ send_call'.value # JNull
           /\ GetItem(send_call'.value, "blockNumber") # JNull]_vars

\* the staking helper submitted the transaction itself, waited, and returned
\* the confirmed record
C21_Witness ==
    /\ send_call.helper = "send_and_confirm_staking_transaction"
    /\ send_call.submitted = SuccessReply(TxHash)
    /\ send_call.elapsed > 0
    /\ send_call.ended = "returned"
    /\ send_call.value = ConfirmedRecord

(***************************************************************************)
(* The helpers under fairness: every statement the call has reached is     *)
(* executed in the end, that is, every RPC request gets its reply and      *)
(* every sleep ends.                                                       *)
(***************************************************************************)
SpecSendFair ==
    /\ SendInit
    /\ [][SendNext]_vars
    /\ WF_vars(AssertValidTestFromAddress)
    /\ WF_vars(\E reply \in SubmissionReplies : Submit(reply))
    /\ WF_vars(\E reply \in AllQueryReplies : GetTransaction(reply))
    /\ WF_vars(LoopTest)
    /\ WF_vars(\E seconds \in {1, tx_timeout} : SleepInLoop(seconds))

\* send_and_confirm_transaction is in its polling loop
Polling ==
    /\ send_call.helper = "send_and_confirm_transaction"
    /\ send_call.at \in {"loop_test", "query", "sleep"}

\* send_and_confirm_transaction has failed with the confirmation timeout
TimedOut ==
    /\ send_call.helper = "send_and_confirm_transaction"
    /\ send_call.ended = "raised"
    /\ send_call.error = CouldNotConfirm

\* C22: send_and_confirm_transaction never polls forever: the polling ends,
\* and when the transaction has not appeared with a non-null block number it
\* ends in a failure; the confirmation-timeout failure is raised only once
\* the elapsed time exceeds the timeout, and only after at least one
\* transaction-by-hash request.
C22_PollingEndsWithTimeout ==
    /\ [](TimedOut =>
              /\ send_call.elapsed > tx_timeout
              /\ "hmy_getTransactionByHash" \in send_call.called)
    /\ Polling ~> (/\ send_call.at = "done"
                   /\ send_call.ended = "returned" => chain.tx = "confirmed"
                   /\ chain.tx # "confirmed" => send_call.ended = "raised")

\* the transaction stayed unknown to the node and the helper has failed with
\* the confirmation timeout
C22_Witness ==
    /\ TimedOut
    /\ chain.tx = "unknown"
    /\ send_call.last_reply = SuccessReply(JNull)

\* the latest transaction-by-hash request of send_and_confirm_transaction
\* was answered with a JSON-RPC error, an empty body or an invalid envelope
PollAnsweredFaulty ==
    /\ send_call.helper = "send_and_confirm_transaction"
    /\ send_call.last_reply \in FaultyReplies

\* C26: if a transaction-by-hash query made during confirmation polling is
\* answered with a JSON-RPC error, an empty body or an invalid envelope,
\* send_and_confirm_transaction fails at once with the error that
\* check_and_unpack_rpc_response raises for the reply; the query is not made
\* again and the failure is not the confirmation timeout.
C26_FaultyPollReplyIsFatal ==
    PollAnsweredFaulty =>
        /\ send_call.at = "done"
        /\ send_call.ended = "raised"
        /\ send_call.failed_at = "poll"
        /\ send_call.error # ""
        /\ send_call.error # CouldNotConfirm
        /\ send_call.error = check_and_unpack_rpc_response(send_call.last_reply, FALSE).raised

\* a by-hash request was answered with a JSON-RPC error and the helper has
\* failed with the missing-result assertion
C26_Witness ==
    /\ PollAnsweredFaulty
    /\ send_call.last_reply = ErrorReply
    /\ send_call.ended = "raised"
    /\ send_call.error = ExpectedResultInResponse

\* the call is a send_and_confirm_transaction of a funded, valid sender for
\* a transaction that was confirmed on-chain when the sender was checked
ResubmittedAfterConfirmation ==
    /\ send_call.helper = "send_and_confirm_transaction"
    /\ send_call.at = "done"
    /\ is_valid_address(send_call.from)
    /\ chain.balance >= OneONE
    /\ chain.tx = "confirmed"
    /\ send_call.count_seen >= 1

\* C27: resubmission is idempotent: calling send_and_confirm_transaction
\* again with the same descriptor, after an earlier call for it has been
\* confirmed on-chain, does not fail and returns the confirmed record.
C27_ResubmissionReturnsRecord ==
    ResubmittedAfterConfirmation =>
        /\ send_call.ended = "returned"
        /\ send_call.value = ConfirmedRecord

\* what holds of the code in place of C27: the resubmission fails in the
\* sender check, before anything is submitted
C27_ResubmissionRaisesAlreadySent ==
    ResubmittedAfterConfirmation =>
        /\ send_call.ended = "raised"
        /\ send_call.failed_at = "check"
        /\ send_call.error = AlreadySent
        /\ send_call.submitted = NoReply

\* a resubmission after confirmation has failed
C27_ResubmissionFailed ==
    /\ ResubmittedAfterConfirmation
    /\ send_call.error = AlreadySent

\* what holds of the code next to C27: a resubmission while the transaction
\* is still pending, answered with an error, ends well
C27_PendingResubmissionReturned ==
    /\ send_call.helper = "send_and_confirm_transaction"
    /\ send_call.count_seen = 0
    /\ send_call.submitted = ErrorReply
    /\ send_call.ended = "returned"
    /\ send_call.value = ConfirmedRecord

\* C28: the send_and_confirm_transaction of tests/txs.py also returns only a
\* record that is confirmed on-chain, one whose block number is non-null; a
\* record that is merely known to the node as pending does not count.
C28_TestsHelperReturnsOnlyConfirmed ==
    (/\ send_call.helper = "tests_send_and_confirm_transaction"
     /\ send_call.ended = "returned")
        => /\ send_call.value # JNull
           /\ GetItem(send_call.value, "blockNumber") # JNull

\* what holds of the code in place of C28: the helper returns the first
\* by-hash result that is not null
C28_TestsHelperReturnsFirstRecord ==
    (/\ send_call.helper = "tests_send_and_confirm_transaction"
     /\ send_call.ended = "returned")
        => /\ send_call.value # JNull
           /\ send_call.last_reply = SuccessReply(send_call.value)

\* the helper of tests/txs.py has returned a pending record
C28_PendingReturned ==
    /\ send_call.helper = "tests_send_and_confirm_transaction"
    /\ send_call.ended = "returned"
    /\ send_call.value = PendingRecord

(***************************************************************************)
(* Parallel tests sending plain transactions of one account.  The account  *)
(* is a funded test account, not the initial funding account, and the      *)
(* suite holds several signed transactions of it for one shard.  ledger is *)
(* what the node holds for the account on that shard:                      *)
(*   pool       its transactions in the pool, in no block yet              *)
(*   confirmed  its transactions in a block; the transaction count that    *)
(*              get_transaction_count reports is their number              *)
(*   submitted  its transactions sent with hmy_sendRawTransaction by the   *)
(*              helpers so far                                             *)
(* suite_calls[t] is the call of send_transaction by test t: at "idle",    *)
(* "check" (at assert_valid_test_from_address) or "submit" (at the         *)
(* request), the transaction, the count the check got, and how the last    *)
(* call ended.  send_and_confirm_transaction submits by the same call of   *)
(* send_transaction; its polling submits nothing.                          *)
(***************************************************************************)
NumTests == 2
SuiteTests == 1..NumTests

\* two signed transactions of the account for the shard
AccountTxs == {"tx_a", "tx_b"}

\* the balance of the account, above 1 ONE
FundedBalance == OneONE * 2

NoSuiteCall == [at |-> "idle", tx |-> "tx_a", count_seen |-> 0 - 1, ended |-> ""]

IdleButSuite == GasIdle /\ JsonIdle /\ RpcIdle /\ LockIdle /\ EraIdle /\ SendIdle

SuiteInit ==
    /\ ledger = [pool |-> {}, confirmed |-> {}, submitted |-> {}]
    /\ suite_calls = [t \in SuiteTests |-> NoSuiteCall]
    /\ IdleButSuite

\* test t calls send_transaction(tx)
SuiteCall(t, tx) ==
    /\ suite_calls[t].at = "idle"
    /\ suite_calls' = [suite_calls EXCEPT ![t] = [NoSuiteCall EXCEPT !.at = "check", !.tx = tx]]
    /\ UNCHANGED <<ledger, otherThanSuite>>

\* assert_valid_test_from_address in the call of test t
SuiteCheckSender(t) ==
    LET count == Cardinality(ledger.confirmed)
        checked == assert_valid_test_from_address(AddrA, FundedBalance, count, FALSE)
    IN  /\ suite_calls[t].at = "check"
        /\ suite_calls' =
               [suite_calls EXCEPT ![t].count_seen = count,
                                   ![t].at = IF checked.error # "" THEN "idle" ELSE "submit",
                                   ![t].ended = IF checked.error # "" THEN "raised" ELSE ""]
        /\ UNCHANGED <<ledger, otherThanSuite>>

\* base_request('hmy_sendRawTransaction') in the call of test t, answered
\* with a valid envelope; a transaction not yet in a block is in the pool
SuiteSubmit(t) ==
    LET tx == suite_calls[t].tx
    IN  /\ suite_calls[t].at = "submit"
        /\ ledger' = [ledger EXCEPT !.submitted = @ \cup {tx},
                                    !.pool = IF tx \in ledger.confirmed THEN @
                                             ELSE @ \cup {tx}]
        /\ suite_calls' = [suite_calls EXCEPT ![t].at = "idle", ![t].ended = "returned"]
        /\ UNCHANGED otherThanSuite

\* a transaction of the pool gets into a block
SuiteConfirm(tx) ==
    /\ tx \in ledger.pool
    /\ ledger' = [ledger EXCEPT !.pool = @ \ {tx}, !.confirmed = @ \cup {tx}]
    /\ UNCHANGED <<suite_calls, otherThanSuite>>

SuiteNext ==
    \/ \E t \in SuiteTests, tx \in AccountTxs : SuiteCall(t, tx)
    \/ \E t \in SuiteTests : SuiteCheckSender(t)
    \/ \E t \in SuiteTests : SuiteSubmit(t)
    \/ \E tx \in AccountTxs : SuiteConfirm(tx)

SpecSuite == SuiteInit /\ [][SuiteNext]_vars

\* C23: after any sequence and any interleaving of send_transaction /
\* send_and_confirm_transaction calls made by parallel tests, the account,
\* which is not the initial funding account, has had at most one plain
\* transaction of its own submitted on the shard through these helpers.
C23_OnePlainTransactionPerAccount ==
    Cardinality(ledger.submitted) <= 1

\* what holds of the code in place of C23: a transaction is submitted only
\* by a call whose sender check found the transaction count 0, that is, no
\* transaction of the account in a block at the time of the check
C23_SubmittedOnlyAfterCountZero ==
    [][ledger'.submitted # ledger.submitted =>
           \E t \in SuiteTests :
               /\ suite_calls[t].at = "submit"
               /\ suite_calls[t].count_seen = 0
               /\ suite_calls'[t].at = "idle"]_vars

\* two different transactions of the account have been submitted, the
\* second by a call that started after the first call had returned
C23_TwoSubmittedInSequence ==
    /\ ledger.submitted = AccountTxs
    /\ ledger.confirmed = {}
    /\ \E t \in SuiteTests :
           /\ suite_calls[t].at = "idle"
           /\ suite_calls[t].ended = "returned"
           /\ \A u \in SuiteTests \ {t} : suite_calls[u] = NoSuiteCall

(***************************************************************************)
(* Totality of is_valid_json_rpc.                                          *)
(***************************************************************************)
\* the text parses as JSON and the value is no object
IsValueText(text) == text.kind = "value"

\* C29: is_valid_json_rpc is total: for every input text it returns True or
\* False and never raises, including for text that parses as JSON but is
\* not an object; check_and_unpack_rpc_response then fails with its
\* invalid-envelope assertion for such input.
C29_IsValidJsonRpcIsTotal ==
    /\ accepted \in {"", "True", "False"}
    /\ (unpacked.called /\ IsValueText(response)) => unpacked = RpcRaised(InvalidJsonResponse)

\* what holds of the code in place of C29: is_valid_json_rpc returns True
\* or False for every text but that of a JSON value that is no object, and
\* for that text both functions raise the AttributeError of the d.keys()
\* call
C29_RaisesOnlyForNonObject ==
    /\ accepted # "" => (accepted = NoAttributeKeys <=> IsValueText(response))
    /\ accepted # NoAttributeKeys => accepted \in {"", "True", "False"}
    /\ (unpacked.called /\ IsValueText(response)) => unpacked = RpcRaised(NoAttributeKeys)

\* both functions have raised the AttributeError for the text null
C29_NullRaisesAttributeError ==
    /\ response = ValueText(JNull)
    /\ accepted = NoAttributeKeys
    /\ unpacked = RpcRaised(NoAttributeKeys)

(***************************************************************************)
(* The decorators cross_shard and staking of txs.py: the wrapper calls the *)
(* era function until it returns True, then the wrapped function.          *)
(***************************************************************************)
\* faulty variant: the loop is left whatever the era function returned
LoopExitsAlways(result) == TRUE

\* while not is_cross_shard_era(): pass / while not is_staking_era(): pass
LoopExits(result) == result = "True"

\* caller c calls a function wrapped by the decorator of `era`
EnterWrap(c, era) ==
    /\ era_call[c].at = "idle"
    /\ era_call[c].wrap = ""
    /\ era_call' = [era_call EXCEPT ![c] = [NoEraCall EXCEPT !.wrap = era]]
    /\ UNCHANGED <<epoch, prestaking_epoch, _is_cross_shard_era, _is_staking_era,
                   otherThanEra>>

\* the loop condition calls the era function of the decorator
LoopCall(c) ==
    /\ era_call[c].wrap # ""
    /\ ~LoopExits(era_call[c].result)
    /\ StartEraCall(c, era_call[c].wrap)

\* return fn(...), the call of the wrapped function
StartBody(c) ==
    /\ era_call[c].wrap # ""
    /\ era_call[c].at = "idle"
    /\ ~era_call[c].body
    /\ LoopExits(era_call[c].result)
    /\ era_call' = [era_call EXCEPT ![c] = [NoEraCall EXCEPT !.wrap = era_call[c].wrap,
                                                              !.body = TRUE]]
    /\ UNCHANGED <<epoch, prestaking_epoch, _is_cross_shard_era, _is_staking_era,
                   otherThanEra>>

\* the wrapped function and the wrapper return
ReturnFromBody(c) ==
    /\ era_call[c].body
    /\ era_call' = [era_call EXCEPT ![c] = NoEraCall]
    /\ UNCHANGED <<epoch, prestaking_epoch, _is_cross_shard_era, _is_staking_era,
                   otherThanEra>>

WrapNext ==
    \/ \E e \in Endpoints : AdvanceEpoch(e)
    \/ \E c \in Callers, era \in Eras : EnterWrap(c, era)
    \/ \E c \in Callers : LoopCall(c)
    \/ \E c \in Callers : GetPrestakingEpoch(c)
    \/ \E c \in Callers : GetCurrentEpoch(c)
    \/ \E c \in Callers : SetEraFlag(c)
    \/ \E c \in Callers : StartBody(c)
    \/ \E c \in Callers : ReturnFromBody(c)

SpecWrap == EraInit /\ [][WrapNext]_vars

\* in this step the wrapper of caller c calls the wrapped function
BodyStarts(c) == ~era_call[c].body /\ era_call'[c].body

\* C24: the body of a function wrapped by the cross_shard or staking
\* decorator starts only after a state in which every endpoint's current
\* epoch was observed at or past the decorator's threshold (1 for
\* cross-shard, the pre-staking epoch for staking); it never starts before
\* the era precondition has held.
C24_BodyStartsAfterEra ==
    [][\A c \in Callers :
           BodyStarts(c) =>
               /\ FlagOf(era_call[c].wrap)
               /\ \A e \in Endpoints : epoch[e] >= ThresholdOf(era_call[c].wrap)
               /\ era_call[c].result = "True"
               /\ era_call[c].era = era_call[c].wrap]_vars

\* a body under the staking decorator runs, the pre-staking epoch being the
\* last one, and a body under the cross_shard decorator runs too
C24_Witness ==
    /\ prestaking_epoch = MaxEpoch
    /\ \E c \in Callers : era_call[c].body /\ era_call[c].wrap = "staking"
    /\ \E c \in Callers : era_call[c].body /\ era_call[c].wrap = "cross_shard"

\* the call of an era function by caller c has returned
EraCallReturned(c) == era_call[c].at = "idle" /\ era_call[c].result # ""

\* the call of caller c got every endpoint's epoch at or past its threshold
AllObservedPast(c) ==
    /\ Len(era_call[c].observed) = NumEndpoints
    /\ \A e \in Endpoints : era_call[c].observed[e] >= era_call[c].threshold

\* C25: is_staking_era returns True on every call in which the cached flag
\* is set or every endpoint's current epoch is at or past the pre-staking
\* epoch (the same way is_cross_shard_era does for epoch 1), and False
\* otherwise.
C25_StakingEraReturnsEra ==
    \A c \in Callers :
        (EraCallReturned(c) /\ era_call[c].era = "staking") =>
            (era_call[c].result = "True" <=> (era_call[c].cached \/ AllObservedPast(c)))

\* what holds of the code in place of C25: is_cross_shard_era returns as
\* stated, and is_staking_era returns True exactly on the calls that found
\* the flag set
C25_StakingTrueOnlyWhenCached ==
    \A c \in Callers :
        EraCallReturned(c) =>
            (era_call[c].result = "True" <=>
                 \/ era_call[c].cached
                 \/ era_call[c].era = "cross_shard" /\ AllObservedPast(c))

\* a call of is_staking_era got every endpoint's epoch at or past the
\* pre-staking epoch, set the flag and returned False
C25_SettingCallReturnedFalse ==
    \E c \in Callers :
        /\ EraCallReturned(c)
        /\ era_call[c].era = "staking"
        /\ era_call[c].threshold = prestaking_epoch
        /\ AllObservedPast(c)
        /\ _is_staking_era
        /\ era_call[c].result = "False"

(***************************************************************************)
(* Liveness of the named locks.  A test run calls each decorated test      *)
(* function a bounded number of times: here every thread makes one call.   *)
(* The steps of a call that has started are taken with weak fairness: a    *)
(* thread that can go on does so, and every body ends, by returning or by  *)
(* raising.  threading.Lock promises no order among the waiting threads,   *)
(* so nothing stronger than weak fairness is taken for acquire().          *)
(***************************************************************************)
\* thread t makes its one call of the run
CallOnce(t, f) ==
    /\ fn[t] = NoFunction
    /\ Call(t, f)

LockFairNext ==
    \/ \E f \in Functions : Decorate(f)
    \/ \E t \in Threads, f \in Functions : CallOnce(t, f)
    \/ \E t \in Threads : Acquire(t)
    \/ \E t \in Threads, how \in {"returned", "raised"} : EndBody(t, how)
    \/ \E t \in Threads : Sleep(t)
    \/ \E t \in Threads : Release(t)

SpecLockFair ==
    /\ LockInit
    /\ [][LockFairNext]_vars
    /\ \A t \in Threads :
           /\ WF_vars(Acquire(t))
           /\ WF_vars(\E how \in {"returned", "raised"} : EndBody(t, how))
           /\ WF_vars(Sleep(t))
           /\ WF_vars(Release(t))

\* C30: if every body run under mutually_exclusive_test terminates, then
\* every call that starts waiting for the lock of that scope eventually
\* acquires it and runs its body; no waiting call is blocked forever.
C30_WaitingCallAcquires ==
    \A t \in Threads :
        (pc[t] = "acquire") ~> (pc[t] = "body" /\ locks[ScopeOf(fn[t])] = t)

\* three calls of one scope: one has finished, one holds the lock and runs
\* its body, one still waits at acquire
C30_Witness ==
    \E t \in Threads, u \in Threads, w \in Threads :
        /\ ScopeOf(fn[t]) = "staking" /\ ScopeOf(fn[u]) = "staking"
        /\ ScopeOf(fn[w]) = "staking"
        /\ pc[u] = "idle" /\ ended[u] # "" /\ fn[u] # NoFunction
        /\ pc[t] = "body" /\ locks["staking"] = t
        /\ pc[w] = "acquire"

=============================================================================
